---- MODULE Spec2Model ----
(***************************************************************************)
(* A model of alliance-squawk-rs: the membership tracker                   *)
(* (services/corporations_service.rs), the delta kernel                    *)
(* corporation_alliance_delta, the ADM classifier                          *)
(* (services/adm_service.rs) and the importance configuration              *)
(* (services/adm_configuration.rs).                                        *)
(*                                                                         *)
(* Occupancy metrics and thresholds are f32 values with one decimal in the *)
(* source; the model keeps them as integers in tenths (4.2 is 42), which   *)
(* preserves <= on the values used.                                        *)
(***************************************************************************)
EXTENDS Integers, Sequences, FiniteSets, TLC

\* ------------------------------------------------------------------ bounds
MaxRoster == 2       \* longest corporation roster the data source returns
MaxLen == 4          \* longest old/new list given to the delta kernel alone
MaxAdm == 45         \* largest occupancy metric and threshold, in tenths
MaxStructures == 2   \* longest sovereignty-structure list the data source returns
MaxLimit == 3        \* largest limit process_alliance_queue is called with on its own
MaxSent == 4         \* notifications sent while the bot's end is watched
MaxReady == 3        \* ready events the chat platform fires
MaxQueue == 22       \* longest alliance list the data source returns to run

Alliances == {1, 2}
Corps == {10, 20, 30}
DeltaIds == 1..4

VARIABLES
    \* CorporationsService fields
    alliance_queue,         \* VecDeque<EsiID>
    alliance_seen,          \* HashSet<EsiID>
    corporation_alliance,   \* HashMap<EsiID, EsiID>: corporation -> alliance
    \* the outbound channel
    chan_open,              \* FALSE once the receiver is gone
    \* position of CorporationsService::run / process_alliance_queue
    pc,
    process_limit,
    alliance_id,
    send_notifications,
    alliance_ops,           \* ops of the current alliance not yet applied
    \* observation of the refresh of the alliance popped last
    refresh,                \* incl. the messages the channel accepted for it
    last_roster,            \* alliance -> ids of its last fetched roster
    rebuild,                \* observation of the last update_alliance_queue
    pass_sent,              \* the messages the channel accepted in this pass
    \* the arguments process_alliance_queue is called with on its own
    drain_input,
    \* the delta kernel on its own
    d_old, d_new, d_ops, d_pc,
    \* select_adm_status on its own
    s_adm, s_warning, s_critical, s_status,
    \* AdmConfiguration: the mapping in memory and the one in adm.toml
    configuration,
    config_file,
    \* InformationService.systems: system id -> name
    systems,
    \* observation of the last get_adm_status call
    adm_call,
    \* observation of the last set_importance call
    config_call,
    \* AdmNotificationService: history, position of run, the rest of the
    \* list send_adm_notifications iterates, observation of its last step
    history,
    n_pc,
    system_adms,
    n_step,
    n_pass,                 \* observation of the list of the pass started last
    \* InformationService.alliances and .corporations: id -> value
    alliances,
    corporations,
    \* holder of the write lock of each of the three maps, 0 when free
    info_lock,
    \* the get_* call of each caller, and what the data source serves now
    info_call,
    esi_version,
    \* Bot.command_receiver: the cell holding the receiver of the channel
    command_receiver,
    consumers,              \* consumer tasks spawned by Bot::ready
    channel,                \* notifications sent and not yet received
    received,               \* notifications the consumer has taken, in order
    \* observation of the channel: sends accepted, ready events fired, and
    \* the sends accepted when the first ready event fired
    bot_seen

tracker_vars == <<alliance_queue, alliance_seen, corporation_alliance,
                  chan_open, pc, process_limit, alliance_id,
                  send_notifications, alliance_ops, refresh,
                  last_roster, rebuild, pass_sent>>
input_vars == <<drain_input>>
delta_vars == <<d_old, d_new, d_ops, d_pc>>
select_vars == <<s_adm, s_warning, s_critical, s_status>>
adm_vars == <<configuration, config_file, systems, adm_call, config_call>>
notify_vars == <<history, n_pc, system_adms, n_step, n_pass>>
cache_vars == <<alliances, corporations, info_lock, info_call, esi_version>>
bot_vars == <<command_receiver, consumers, channel, received, bot_seen>>
vars == <<tracker_vars, input_vars, delta_vars, select_vars, adm_vars,
          notify_vars, cache_vars, bot_vars>>

\* ----------------------------------------------------------------- helpers
Range(s) == {s[i] : i \in DOMAIN s}

SeqsUpTo(S, n) == UNION {[1..k -> S] : k \in 0..n}

\* every order in which the elements of the finite set S can be iterated
RECURSIVE Orders(_)
Orders(S) ==
    IF S = {} THEN {<<>>}
    ELSE UNION {{<<x>> \o o : o \in Orders(S \ {x})} : x \in S}

\* the multisets of at most n elements of S, each as its non-decreasing list
MultisetLists(S, n) ==
    {l \in SeqsUpTo(S, n) : \A i, j \in DOMAIN l : i < j => l[i] <= l[j]}

SetToSeq(S) == CHOOSE o \in Orders(S) : \A i, j \in DOMAIN o : i < j => o[i] < o[j]

\* HashMap::insert and HashMap::remove on a function with a dynamic domain
MapInsert(m, k, v) == [x \in DOMAIN m \cup {k} |-> IF x = k THEN v ELSE m[x]]
MapRemove(m, k) == [x \in DOMAIN m \ {k} |-> m[x]]

\* ---------------------------------------------------- AllianceOp and delta
Add(c) == [op |-> "Add", corporation |-> c]
Del(c) == [op |-> "Del", corporation |-> c]

\* one pass of `for c in list` over the repetitions map, adding step per
\* occurrence and starting a missing key at step
RECURSIVE CountInto(_, _, _)
CountInto(rep, list, step) ==
    IF list = <<>> THEN rep
    ELSE LET c == Head(list)
         IN CountInto(MapInsert(rep, c, IF c \in DOMAIN rep THEN rep[c] + step ELSE step),
                      Tail(list), step)

\* variant: the second loop counts from the empty map, losing the old tallies
repetitions_NewOnly(old_corporations, new_corporations) ==
    CountInto(<<>>, new_corporations, -1)

\* variant: the second loop adds instead of subtracting
repetitions_BothUp(old_corporations, new_corporations) ==
    CountInto(CountInto(<<>>, old_corporations, 1), new_corporations, 1)

repetitions(old_corporations, new_corporations) ==
    CountInto(CountInto(<<>>, old_corporations, 1), new_corporations, -1)

\* variant: a tally of zero is reported as a Del
RECURSIVE OpsInOrder_ZeroIsDel(_, _)
OpsInOrder_ZeroIsDel(rep, order) ==
    IF order = <<>> THEN <<>>
    ELSE LET c == Head(order)
             rest == OpsInOrder_ZeroIsDel(rep, Tail(order))
         IN IF rep[c] >= 0 THEN <<Del(c)>> \o rest
            ELSE <<Add(c)>> \o rest

\* lines 214-220: one op per key of the map whose tally is not zero
RECURSIVE OpsInOrder(_, _)
OpsInOrder(rep, order) ==
    IF order = <<>> THEN <<>>
    ELSE LET c == Head(order)
             rest == OpsInOrder(rep, Tail(order))
         IN IF rep[c] > 0 THEN <<Del(c)>> \o rest
            ELSE IF rep[c] < 0 THEN <<Add(c)>> \o rest
            ELSE rest

\* the op list, for the iteration order `order` of the repetitions map
corporation_alliance_delta(old_corporations, new_corporations, order) ==
    OpsInOrder(repetitions(old_corporations, new_corporations), order)

\* the iteration orders a HashMap over these keys can have
DeltaOrders(old_corporations, new_corporations) ==
    Orders(DOMAIN repetitions(old_corporations, new_corporations))

\* -------------------------------------------------------- membership tracker
NotifyCorpJoinAlliance(a, c) ==
    [type |-> "NotifyCorpJoinAlliance", alliance |-> a, corporation |-> c]
NotifyCorpLeftAlliance(a, c) ==
    [type |-> "NotifyCorpLeftAlliance", alliance |-> a, corporation |-> c]

NoLimit == [some |-> FALSE, limit |-> 0]
SomeLimit(n) == [some |-> TRUE, limit |-> n]
RunLimit == 20

Min(a, b) == IF a <= b THEN a ELSE b

\* variant: the limit is ignored
ProcessLimit_WholeQueue(limit, queue) == Len(queue)

\* lines 67-71: limit.unwrap_or(len).min(len)
ProcessLimit(limit, queue) ==
    IF limit.some THEN Min(limit.limit, Len(queue)) ELSE Len(queue)

\* variant: the filter on the alliance is left out
old_corporations_any(ca, a) == DOMAIN ca

\* corporations currently mapped to alliance a
old_corporations_of(ca, a) == {c \in DOMAIN ca : ca[c] = a}

SendNotifications(seen, a) == a \in seen

\* variant: the alliance is marked before the fetch result is known
SeenAfterFetch_Always(seen, a, ok) == seen \cup {a}

\* variant: the set is rebuilt from the alliance fetched last
SeenAfterFetch_Replaced(seen, a, ok) == IF ok THEN {a} ELSE seen

\* variant: the alliance is marked in the Err arm instead
SeenAfterFetch_OnErr(seen, a, ok) == IF ok THEN seen ELSE seen \cup {a}

\* lines 103-108: alliance_seen.insert only in the Ok arm of the fetch
SeenAfterFetch(seen, a, ok) == IF ok THEN seen \cup {a} ELSE seen

\* variant: an Add keeps the entry a corporation has under another alliance
OpMembership_KeepOther(op, a, ca) ==
    IF op.op = "Add"
    THEN (IF op.corporation \in DOMAIN ca THEN ca ELSE MapInsert(ca, op.corporation, a))
    ELSE MapRemove(ca, op.corporation)

\* variant: a Del leaves the entry in the map
OpMembership_KeepOnDel(op, a, ca) ==
    IF op.op = "Add" THEN MapInsert(ca, op.corporation, a) ELSE ca

\* effect of one op on the corporation -> alliance map
OpMembership(op, a, ca) ==
    IF op.op = "Add" THEN MapInsert(ca, op.corporation, a)
    ELSE MapRemove(ca, op.corporation)

\* the messages one op hands to the channel
OpNotifications(op, a, send) ==
    IF op.op = "Add" THEN <<>>
    ELSE IF send THEN <<NotifyCorpLeftAlliance(a, op.corporation)>>
    ELSE <<>>

\* variant: a failed send is ignored
SendAborts_Never(msgs, open) == FALSE

\* lines 131-144: `send(..).is_err()` on a closed channel breaks 'running
SendAborts(msgs, open) == msgs # <<>> /\ ~open

\* the ids of a fetched roster, or no roster fetched yet
NoRoster == [some |-> FALSE, ids |-> {}]
SomeRoster(r) == [some |-> TRUE, ids |-> Range(r)]

\* what is observed of one alliance's refresh: the alliance popped, the
\* corporations mapped to it at that moment, whether it was seen,
\* the roster fetched, the ops computed, the messages the channel accepted,
\* and whether the channel was open at every send
NoRefresh ==
    [alliance |-> 0, old |-> {}, was_seen |-> FALSE,
     roster |-> NoRoster, dups |-> FALSE, prev |-> NoRoster, ops |-> {},
     emitted |-> <<>>, state |-> "none", open |-> TRUE]

\* process_alliance_queue called on its own: no call made
NoInput == [queue |-> <<>>, limit |-> NoLimit, seen |-> {}, membership |-> <<>>]

\* what is observed of a rebuild: what the data source returned and the
\* queue that was cleared
NoRebuild ==
    [some |-> FALSE, result |-> [ok |-> FALSE, ids |-> <<>>], cleared |-> <<>>]

TrackerInit ==
    /\ alliance_queue = <<>>
    /\ alliance_seen = {}
    /\ corporation_alliance = <<>>
    /\ chan_open = TRUE
    /\ pc = "start"
    /\ process_limit = 0
    /\ alliance_id = 0
    /\ send_notifications = FALSE
    /\ alliance_ops = <<>>
    /\ refresh = NoRefresh
    /\ last_roster = [a \in Alliances |-> NoRoster]
    /\ rebuild = NoRebuild
    /\ pass_sent = <<>>
    /\ drain_input = NoInput

DeltaIdle ==
    /\ d_old = <<>>
    /\ d_new = <<>>
    /\ d_ops = <<>>
    /\ d_pc = "off"

\* variant: the fetched ids are pushed behind the alliances still queued
QueueAfterUpdate_Merged(queue, result) ==
    IF result.ok THEN queue \o result.ids ELSE queue

\* queue.clear(), then push_back of every fetched id; nothing on Err
QueueAfterUpdate(queue, result) ==
    IF result.ok THEN result.ids ELSE <<>>

\* update_alliance_queue: the queue becomes the fetched list, or empty
update_alliance_queue(result) ==
    /\ alliance_queue' = QueueAfterUpdate(alliance_queue, result)
    /\ rebuild' = [some |-> TRUE, result |-> result, cleared |-> alliance_queue]
    /\ refresh' = NoRefresh
    /\ pass_sent' = <<>>
    /\ UNCHANGED <<alliance_seen, corporation_alliance, chan_open,
                   process_limit, alliance_id, send_notifications, alliance_ops,
                   last_roster>>

\* what get_alliance_ids can return: an error, or a list of distinct ids
AllianceIdResults ==
    {[ok |-> FALSE, ids |-> <<>>]}
        \cup {[ok |-> TRUE, ids |-> q] : q \in UNION {Orders(S) : S \in SUBSET Alliances}}

\* what get_alliance_corporations can return on success: a list of ids,
\* duplicates allowed (one list per multiset of ids)
Rosters == MultisetLists(Corps, MaxRoster)

\* run, lines 157-158: the first rebuild, then the unlimited drain
RunFirstUpdate ==
    /\ pc = "start"
    /\ \E result \in AllianceIdResults : update_alliance_queue(result)
    /\ pc' = "first_process"
    /\ UNCHANGED <<bot_vars, input_vars, delta_vars, select_vars, adm_vars, notify_vars, cache_vars>>

\* process_alliance_queue up to the first test of the 'running loop
process_alliance_queue_enter(limit) ==
    /\ process_limit' = ProcessLimit(limit, alliance_queue)
    /\ pc' = IF ProcessLimit(limit, alliance_queue) = 0 THEN "loop_update" ELSE "running"
    /\ rebuild' = NoRebuild
    /\ pass_sent' = <<>>
    /\ UNCHANGED <<alliance_queue, alliance_seen, corporation_alliance,
                   chan_open, alliance_id, send_notifications,
                   alliance_ops, refresh, last_roster>>

\* variant: the first drain is limited like the scheduled ones
RunFirstProcess_Limited ==
    /\ pc = "first_process"
    /\ process_alliance_queue_enter(SomeLimit(RunLimit))
    /\ UNCHANGED <<bot_vars, input_vars, delta_vars, select_vars, adm_vars, notify_vars, cache_vars>>

\* run, line 158: the first drain, without limit
RunFirstProcess ==
    /\ pc = "first_process"
    /\ process_alliance_queue_enter(NoLimit)
    /\ UNCHANGED <<bot_vars, input_vars, delta_vars, select_vars, adm_vars, notify_vars, cache_vars>>

\* run, lines 161-168: a due rebuild
LoopUpdateDue ==
    /\ pc = "loop_update"
    /\ \E result \in AllianceIdResults : update_alliance_queue(result)
    /\ pc' = "loop_process"
    /\ UNCHANGED <<bot_vars, input_vars, delta_vars, select_vars, adm_vars, notify_vars, cache_vars>>

LoopUpdateNotDue ==
    /\ pc = "loop_update"
    /\ pc' = "loop_process"
    /\ refresh' = NoRefresh
    /\ pass_sent' = <<>>
    /\ UNCHANGED <<alliance_queue, alliance_seen, corporation_alliance,
                   chan_open, process_limit, alliance_id,
                   send_notifications, alliance_ops, last_roster, rebuild>>
    /\ UNCHANGED <<bot_vars, input_vars, delta_vars, select_vars, adm_vars, notify_vars, cache_vars>>

\* run, lines 170-177: a due drain of at most 20 alliances
LoopProcessDue ==
    /\ pc = "loop_process"
    /\ process_alliance_queue_enter(SomeLimit(RunLimit))
    /\ UNCHANGED <<bot_vars, input_vars, delta_vars, select_vars, adm_vars, notify_vars, cache_vars>>

\* run, lines 176-179: no drain due, sleep and check again
LoopProcessNotDue ==
    /\ pc = "loop_process"
    /\ pc' = "loop_update"
    /\ rebuild' = NoRebuild
    /\ UNCHANGED <<alliance_queue, alliance_seen, corporation_alliance,
                   chan_open, process_limit, alliance_id,
                   send_notifications, alliance_ops, refresh, last_roster,
                   pass_sent>>
    /\ UNCHANGED <<bot_vars, input_vars, delta_vars, select_vars, adm_vars, notify_vars, cache_vars>>

\* lines 85-87: the 'running loop ends
RunningBreak ==
    /\ pc = "running"
    /\ (alliance_queue = <<>> \/ process_limit = 0)
    /\ pc' = "loop_update"
    /\ process_limit' = 0
    /\ alliance_id' = 0
    /\ send_notifications' = FALSE
    /\ UNCHANGED <<alliance_queue, alliance_seen, corporation_alliance,
                   chan_open, alliance_ops, refresh, last_roster, rebuild,
                   pass_sent>>
    /\ UNCHANGED <<bot_vars, input_vars, delta_vars, select_vars, adm_vars, notify_vars, cache_vars>>

\* variant: the front is read and stays queued
pop_front_Peek(queue) == [alliance_id |-> Head(queue), queue |-> queue]

\* variant: the alliance is taken from the back of the queue
pop_front_Back(queue) ==
    [alliance_id |-> queue[Len(queue)], queue |-> SubSeq(queue, 1, Len(queue) - 1)]

\* line 91: alliance_queue.pop_front()
pop_front(queue) == [alliance_id |-> Head(queue), queue |-> Tail(queue)]

Popped(a) ==
    [alliance |-> a,
     old |-> old_corporations_of(corporation_alliance, a),
     was_seen |-> a \in alliance_seen,
     roster |-> NoRoster,
     dups |-> FALSE,
     prev |-> last_roster[a],
     ops |-> {},
     emitted |-> <<>>,
     state |-> "failed",
     open |-> chan_open]

\* lines 89-110, roster fetch fails: the alliance is skipped
FetchFails ==
    /\ pc = "running"
    /\ alliance_queue # <<>>
    /\ process_limit # 0
    /\ process_limit' = process_limit - 1
    /\ LET a == pop_front(alliance_queue).alliance_id
       IN /\ alliance_id' = a
          /\ alliance_queue' = pop_front(alliance_queue).queue
          /\ send_notifications' = SendNotifications(alliance_seen, a)
          /\ refresh' = Popped(a)
          /\ alliance_seen' = SeenAfterFetch(alliance_seen, a, FALSE)
    /\ UNCHANGED <<corporation_alliance, chan_open,
                   pc, alliance_ops, last_roster, rebuild, pass_sent>>
    /\ UNCHANGED <<bot_vars, input_vars, delta_vars, select_vars, adm_vars, notify_vars, cache_vars>>

\* lines 89-110, roster fetch succeeds: seen is set and the ops are computed
FetchSucceeds ==
    /\ pc = "running"
    /\ alliance_queue # <<>>
    /\ process_limit # 0
    /\ \E new_corporations \in Rosters :
         LET a == pop_front(alliance_queue).alliance_id
             old == SetToSeq(old_corporations_of(corporation_alliance, a))
         IN \E ops \in {corporation_alliance_delta(old, new_corporations, order) :
                            order \in DeltaOrders(old, new_corporations)} :
                 /\ process_limit' = process_limit - 1
                 /\ alliance_id' = a
                 /\ alliance_queue' = pop_front(alliance_queue).queue
                 /\ send_notifications' = SendNotifications(alliance_seen, a)
                 /\ alliance_seen' = SeenAfterFetch(alliance_seen, a, TRUE)
                 /\ alliance_ops' = ops
                 /\ pc' = IF ops = <<>> THEN "running" ELSE "ops"
                 /\ last_roster' = [last_roster EXCEPT ![a] = SomeRoster(new_corporations)]
                 /\ refresh' = [Popped(a) EXCEPT
                                  !.roster = SomeRoster(new_corporations),
                                  !.dups = Cardinality(Range(new_corporations))
                                              # Len(new_corporations),
                                  !.ops = Range(ops),
                                  !.state = IF ops = <<>> THEN "complete" ELSE "applying"]
    /\ UNCHANGED <<corporation_alliance, chan_open, rebuild, pass_sent>>
    /\ UNCHANGED <<bot_vars, input_vars, delta_vars, select_vars, adm_vars, notify_vars, cache_vars>>

\* lines 112-147: one op of the current alliance
ApplyOp ==
    /\ pc = "ops"
    /\ LET op == Head(alliance_ops)
           msgs == OpNotifications(op, alliance_id, send_notifications)
           failed == SendAborts(msgs, chan_open)
       IN /\ corporation_alliance' = OpMembership(op, alliance_id, corporation_alliance)
          /\ alliance_ops' = IF failed THEN <<>> ELSE Tail(alliance_ops)
          /\ pc' = IF failed THEN "loop_update"
                   ELSE IF Tail(alliance_ops) = <<>> THEN "running" ELSE "ops"
          /\ refresh' = [refresh EXCEPT
                           !.emitted = IF chan_open THEN @ \o msgs ELSE @,
                           !.open = @ /\ chan_open,
                           !.state = IF failed THEN "aborted"
                                     ELSE IF Tail(alliance_ops) = <<>> THEN "complete"
                                     ELSE "applying"]
          /\ process_limit' = IF failed THEN 0 ELSE process_limit
          /\ alliance_id' = IF failed THEN 0 ELSE alliance_id
          /\ send_notifications' = IF failed THEN FALSE ELSE send_notifications
          /\ pass_sent' = IF chan_open THEN pass_sent \o msgs ELSE pass_sent
    /\ UNCHANGED <<alliance_queue, alliance_seen, chan_open, last_roster, rebuild>>
    /\ UNCHANGED <<bot_vars, input_vars, delta_vars, select_vars, adm_vars, notify_vars, cache_vars>>

\* the receiver of the outbound channel is dropped
CloseChannel ==
    /\ chan_open
    /\ chan_open' = FALSE
    /\ UNCHANGED <<alliance_queue, alliance_seen, corporation_alliance, pc, process_limit, alliance_id,
                   send_notifications, alliance_ops, refresh, last_roster, rebuild,
                   pass_sent>>
    /\ UNCHANGED <<bot_vars, input_vars, delta_vars, select_vars, adm_vars, notify_vars, cache_vars>>


\* ------------------------------------------------------- ADM classification
Good(adm) == [kind |-> "Good", adm |-> adm]
Warning(adm) == [kind |-> "Warning", adm |-> adm]
Critical(adm) == [kind |-> "Critical", adm |-> adm]
NoStatus == [kind |-> "none", adm |-> 0]

\* variant: the critical comparison is strict
select_adm_status_StrictCritical(adm, warning_threshold, critical_threshold) ==
    IF adm < critical_threshold THEN Critical(adm)
    ELSE IF adm <= warning_threshold THEN Warning(adm)
    ELSE Good(adm)

\* variant: the warning comparison is made first
select_adm_status_WarningFirst(adm, warning_threshold, critical_threshold) ==
    IF adm <= warning_threshold THEN Warning(adm)
    ELSE IF adm <= critical_threshold THEN Critical(adm)
    ELSE Good(adm)

\* lines 121-130; metrics and thresholds are in tenths (4.2 is 42)
select_adm_status(adm, warning_threshold, critical_threshold) ==
    LET is_critical_state == adm <= critical_threshold
        is_warning_state == adm <= warning_threshold
    IN IF is_critical_state THEN Critical(adm)
       ELSE IF is_warning_state THEN Warning(adm)
       ELSE Good(adm)

warning_threshold(importance) ==
    CASE importance = "Red" -> 42
      [] importance = "Yellow" -> 32
      [] importance = "Green" -> 12

critical_threshold(importance) ==
    CASE importance = "Red" -> 40
      [] importance = "Yellow" -> 30
      [] importance = "Green" -> 10

SelectIdle ==
    /\ s_adm = 0
    /\ s_warning = 0
    /\ s_critical = 0
    /\ s_status = NoStatus

\* select_adm_status is called on one metric and one pair of thresholds
SelectInit ==
    /\ s_adm \in 0..MaxAdm
    /\ s_warning \in {t \in 0..MaxAdm : t % 2 = 0}
    /\ s_critical \in {t \in 0..MaxAdm : t % 2 = 0}
    /\ s_status = NoStatus

SelectCall ==
    /\ s_status = NoStatus
    /\ s_status' = select_adm_status(s_adm, s_warning, s_critical)
    /\ UNCHANGED <<s_adm, s_warning, s_critical>>
    /\ UNCHANGED <<bot_vars, input_vars, tracker_vars, delta_vars, adm_vars, notify_vars, cache_vars>>

\* ------------------------------------------- the delta kernel on its own
\* corporation_alliance_delta is called on one pair of multisets of ids and
\* returns its ops in one of the iteration orders of the map
DeltaInit ==
    /\ d_old \in MultisetLists(DeltaIds, MaxLen)
    /\ d_new \in MultisetLists(DeltaIds, MaxLen)
    /\ d_ops = <<>>
    /\ d_pc = "call"

DeltaCall ==
    /\ d_pc = "call"
    /\ \E order \in DeltaOrders(d_old, d_new) :
         d_ops' = corporation_alliance_delta(d_old, d_new, order)
    /\ d_pc' = "done"
    /\ UNCHANGED <<d_old, d_new>>
    /\ UNCHANGED <<bot_vars, input_vars, tracker_vars, select_vars, adm_vars, notify_vars, cache_vars>>


\* ------------------------------------------- get_adm_status and its inputs
AllianceId == 1              \* the ALLIANCE_ID the process is configured with
OtherAllianceId == 2
TCU_STRUCTURE_ID == 32226
IHUB_STRUCTURE_ID == 32458
include_tcus == FALSE        \* the flag main passes to AdmService::new

SystemIds == {1, 2}

\* the name the data source gives a system
EsiSystemName(id) == IF id = 1 THEN "1DQ1-A" ELSE "Jita"

NoLevel == [some |-> FALSE, level |-> 0]
SomeLevel(l) == [some |-> TRUE, level |-> l]

AdmLevels == {10, 39, 41, 43}

SovereigntyStructure(a, s, t, l) ==
    [alliance_id |-> a, solar_system_id |-> s, structure_type_id |-> t,
     vulnerability_occupancy_level |-> l]

\* the structures a list is made of: those of the alliance that report a
\* level, and one structure for each reason the filter has to drop one
SovereigntyStructures ==
    {SovereigntyStructure(AllianceId, 1, IHUB_STRUCTURE_ID, SomeLevel(l)) :
        l \in AdmLevels}
    \cup {SovereigntyStructure(AllianceId, 2, IHUB_STRUCTURE_ID, SomeLevel(41))}
    \cup {SovereigntyStructure(OtherAllianceId, 1, IHUB_STRUCTURE_ID, SomeLevel(39)),
          SovereigntyStructure(AllianceId, 1, TCU_STRUCTURE_ID, SomeLevel(39)),
          SovereigntyStructure(AllianceId, 1, IHUB_STRUCTURE_ID, NoLevel)}

\* what get_sovereignty_structures can return
SovereigntyResults ==
    {[ok |-> FALSE, structures |-> <<>>]}
        \cup {[ok |-> TRUE, structures |-> l] :
                l \in SeqsUpTo(SovereigntyStructures, MaxStructures)}

\* variant: the structure type is not looked at
Included_KeepsTcus(sovereignty_structure) ==
    /\ sovereignty_structure.alliance_id = AllianceId
    /\ sovereignty_structure.vulnerability_occupancy_level.some

\* lines 59-66: the filter of get_adm_status
Included(sovereignty_structure) ==
    /\ sovereignty_structure.alliance_id = AllianceId
    /\ (include_tcus \/ sovereignty_structure.structure_type_id # TCU_STRUCTURE_ID)
    /\ sovereignty_structure.vulnerability_occupancy_level.some

RECURSIVE Filter(_)
Filter(list) ==
    IF list = <<>> THEN <<>>
    ELSE IF Included(Head(list)) THEN <<Head(list)>> \o Filter(Tail(list))
    ELSE Filter(Tail(list))

\* AdmConfiguration::get_importance
get_importance(config, system_name) ==
    IF system_name \in DOMAIN config
    THEN [some |-> TRUE, importance |-> config[system_name]]
    ELSE [some |-> FALSE, importance |-> "Green"]

\* variant: a system without an entry is classified as Red
ImportanceOf_DefaultRed(config, system_name) ==
    LET found == get_importance(config, system_name)
    IN IF found.some THEN found.importance ELSE "Red"

\* lines 85-89: the importance a system is classified with
ImportanceOf(config, system_name) ==
    LET found == get_importance(config, system_name)
    IN IF found.some THEN found.importance ELSE "Green"

\* lines 85-98: the status of a structure of a system with this name
StatusOf(config, system_name, adm) ==
    LET importance == ImportanceOf(config, system_name)
    IN select_adm_status(adm, warning_threshold(importance),
                         critical_threshold(importance))

SystemAdm(id, status) == [system_id |-> id, status |-> status]

\* variant: the loop ends at the first system whose name is not resolved
RECURSIVE adm_loop_StopsAtFailure(_, _, _, _, _)
adm_loop_StopsAtFailure(list, i, cache, config, fetch_fails) ==
    IF i > Len(list) THEN [systems |-> <<>>, cache |-> cache, failed |-> {}]
    ELSE LET id == list[i].solar_system_id
             adm == list[i].vulnerability_occupancy_level.level
             cached == id \in DOMAIN cache
             got == cached \/ fetch_fails[id] = 0
             cache1 == IF got /\ ~cached THEN MapInsert(cache, id, EsiSystemName(id))
                       ELSE cache
             rest == adm_loop_StopsAtFailure(list, i + 1, cache1, config, fetch_fails)
         IN IF got
            THEN [systems |-> <<SystemAdm(id, StatusOf(config, cache1[id], adm))>>
                                \o rest.systems,
                  cache |-> rest.cache,
                  failed |-> rest.failed]
            ELSE [systems |-> <<>>, cache |-> cache, failed |-> {i}]

\* lines 75-118: the loop over the filtered structures. cache is
\* InformationService.systems; fetch_fails[id] is the number of fetches of
\* system id that fail before one succeeds (a name once fetched is cached,
\* so no fetch of that system follows a success)
RECURSIVE adm_loop(_, _, _, _, _)
adm_loop(list, i, cache, config, fetch_fails) ==
    IF i > Len(list) THEN [systems |-> <<>>, cache |-> cache, failed |-> {}]
    ELSE LET id == list[i].solar_system_id
             adm == list[i].vulnerability_occupancy_level.level
             cached == id \in DOMAIN cache
             got == cached \/ fetch_fails[id] = 0
             cache1 == IF got /\ ~cached THEN MapInsert(cache, id, EsiSystemName(id))
                       ELSE cache
             fails1 == IF got THEN fetch_fails
                       ELSE [fetch_fails EXCEPT ![id] = @ - 1]
             rest == adm_loop(list, i + 1, cache1, config, fails1)
         IN IF got
            THEN [systems |-> <<SystemAdm(id, StatusOf(config, cache1[id], adm))>>
                                \o rest.systems,
                  cache |-> rest.cache,
                  failed |-> rest.failed]
            ELSE [rest EXCEPT !.failed = @ \cup {i}]

\* variant: a system whose status is the one in the notifier's history is
\* left out of the list
get_adm_status_SkipsKnown(result, cache, config, fetch_fails) ==
    LET out == adm_loop(Filter(IF result.ok THEN result.structures ELSE <<>>), 1,
                        cache, config, fetch_fails)
        Known(e) == e.system_id \in DOMAIN history /\ history[e.system_id] = e.status
    IN [out EXCEPT !.systems = SelectSeq(@, LAMBDA e : ~Known(e))]

get_adm_status(result, cache, config, fetch_fails) ==
    adm_loop(Filter(IF result.ok THEN result.structures ELSE <<>>), 1, cache,
             config, fetch_fails)

\* the fetches of system id a call can make: none when the name is cached,
\* else at most one per filtered structure of the system
Fetches(result, cache, id) ==
    IF id \in DOMAIN cache THEN 0
    ELSE Cardinality({i \in DOMAIN Filter(result.structures) :
                        Filter(result.structures)[i].solar_system_id = id})

\* ----------------------------------------------- the importance configuration
\* str::to_uppercase on the texts the administrator enters
to_uppercase(text) ==
    CASE text = "1dq1-a" -> "1DQ1-A"
      [] text = "Jita" -> "JITA"
      [] text = "red" -> "RED"
      [] text = "Yellow" -> "YELLOW"
      [] text = "Blue" -> "BLUE"
      [] OTHER -> text

SystemInputs == {"1dq1-a", "Jita"}
ImportanceInputs == {"red", "Yellow", "GREEN", "Blue"}

\* adm_configure, lines 31-36
ParseImportance(text) ==
    CASE to_uppercase(text) = "RED" -> [some |-> TRUE, importance |-> "Red"]
      [] to_uppercase(text) = "YELLOW" -> [some |-> TRUE, importance |-> "Yellow"]
      [] to_uppercase(text) = "GREEN" -> [some |-> TRUE, importance |-> "Green"]
      [] OTHER -> [some |-> FALSE, importance |-> "Green"]

\* what is observed of a get_adm_status call: the structure list fetched,
\* the filtered structures whose system name could not be resolved (by
\* position), and the list returned
NoCall ==
    [state |-> "none", result |-> [ok |-> FALSE, structures |-> <<>>],
     failed |-> {}, systems |-> <<>>]

\* adm.toml: absent, holding a mapping, or holding text that is not one
NoFile == [exists |-> FALSE, valid |-> FALSE, importance |-> <<>>]
File(config) == [exists |-> TRUE, valid |-> TRUE, importance |-> config]
BadFile == [exists |-> TRUE, valid |-> FALSE, importance |-> <<>>]

\* load_configuration: Default when the file cannot be read, the mapping
\* parsed from it otherwise, Err when it does not parse
load_configuration(file) ==
    IF ~file.exists THEN [ok |-> TRUE, importance |-> <<>>]
    ELSE IF file.valid THEN [ok |-> TRUE, importance |-> file.importance]
    ELSE [ok |-> FALSE, importance |-> <<>>]

\* variant: only the entry just set is written
SavedFile_OnlyEntry(config, system_name) ==
    File([k \in {system_name} |-> config[system_name]])

\* save_configuration: the whole mapping is serialised and written
SavedFile(config, system_name) == File(config)

\* what is observed of a set_importance call: its arguments and whether the
\* write succeeded
NoConfigCall ==
    [some |-> FALSE, system_name |-> "", importance |-> "Green", saved |-> FALSE]

\* the process started without adm.toml
AdmInit ==
    /\ config_file = NoFile
    /\ configuration = load_configuration(config_file).importance
    /\ systems = <<>>
    /\ adm_call = NoCall
    /\ config_call = NoConfigCall

\* AdmConfiguration::set_importance: the mapping in memory is updated, then
\* the whole mapping is written to adm.toml, which may fail
set_importance(system_name, importance, save_ok) ==
    /\ configuration' = MapInsert(configuration, system_name, importance)
    /\ config_file' = IF save_ok
                      THEN SavedFile(MapInsert(configuration, system_name, importance),
                                     system_name)
                      ELSE config_file
    /\ config_call' = [some |-> TRUE, system_name |-> system_name,
                       importance |-> importance, saved |-> save_ok]

\* commands::adm_configure::run with the two texts of the modal
AdmConfigure ==
    /\ adm_call.state = "none"
    /\ ~config_call.some
    /\ \E system_input \in SystemInputs, importance_input \in ImportanceInputs,
          save_ok \in BOOLEAN :
         LET system == to_uppercase(system_input)
             importance == ParseImportance(importance_input)
         IN IF importance.some
            THEN set_importance(system, importance.importance, save_ok)
            ELSE UNCHANGED <<configuration, config_file, config_call>>
    /\ UNCHANGED <<systems, adm_call>>
    /\ UNCHANGED <<bot_vars, input_vars, tracker_vars, delta_vars, select_vars, notify_vars, cache_vars>>

\* AdmService::get_adm_status, called by the notifier or the adm command
GetAdmStatus ==
    /\ adm_call.state = "none"
    /\ ~config_call.some
    /\ \E result \in SovereigntyResults :
         \E fetch_fails \in [SystemIds -> 0..MaxStructures] :
           /\ \A id \in SystemIds : fetch_fails[id] <= Fetches(result, systems, id)
           /\ LET out == get_adm_status(result, systems, configuration, fetch_fails)
              IN /\ systems' = out.cache
                 /\ adm_call' = [state |-> "returned", result |-> result,
                                 failed |-> out.failed, systems |-> out.systems]
    /\ UNCHANGED <<configuration, config_file, config_call>>
    /\ UNCHANGED <<bot_vars, input_vars, tracker_vars, delta_vars, select_vars, notify_vars, cache_vars>>

\* the caller has taken the result
AdmReturn ==
    /\ adm_call.state = "returned"
    /\ adm_call' = NoCall
    /\ UNCHANGED <<configuration, config_file, systems, config_call>>
    /\ UNCHANGED <<bot_vars, input_vars, tracker_vars, delta_vars, select_vars, notify_vars, cache_vars>>

\* set_importance has returned to adm_configure, which answers the
\* administrator or fails
ConfigureReturn ==
    /\ config_call.some
    /\ config_call' = NoConfigCall
    /\ UNCHANGED <<configuration, config_file, systems, adm_call>>
    /\ UNCHANGED <<bot_vars, input_vars, tracker_vars, delta_vars, select_vars, notify_vars, cache_vars>>

\* ------------------------------------------------- the status notifier
NotifyAdm(system_adm) == [kind |-> "NotifyAdm", system_adm |-> system_adm]

\* self.history.remove(&system_adm.system_id): None is NoStatus
prev_adm_of(hist, system_id) ==
    IF system_id \in DOMAIN hist THEN hist[system_id] ELSE NoStatus

\* variant: the first Warning of a system is not announced
Sends_NoFirstWarning(status, prev_adm) ==
    \/ status.kind = "Warning" /\ prev_adm.kind = "Good"
    \/ status.kind = "Critical" /\ prev_adm.kind = "Warning"
    \/ status.kind = "Critical" /\ prev_adm.kind = "none"

\* variant: the jump from Good to Critical is announced too
Sends_GoodToCritical(status, prev_adm) ==
    \/ status.kind = "Warning" /\ prev_adm.kind = "Good"
    \/ status.kind = "Critical" /\ prev_adm.kind = "Warning"
    \/ status.kind = "Warning" /\ prev_adm.kind = "none"
    \/ status.kind = "Critical" /\ prev_adm.kind = "none"
    \/ status.kind = "Critical" /\ prev_adm.kind = "Good"

\* lines 39-52: the arms of the match that send
Sends(status, prev_adm) ==
    \/ status.kind = "Warning" /\ prev_adm.kind = "Good"
    \/ status.kind = "Critical" /\ prev_adm.kind = "Warning"
    \/ status.kind = "Warning" /\ prev_adm.kind = "none"
    \/ status.kind = "Critical" /\ prev_adm.kind = "none"

\* variant: the history keeps the old entry when nothing was sent
HistoryAfter_OnlyWhenSent(hist, system_adm, sends) ==
    IF sends \/ system_adm.system_id \notin DOMAIN hist
    THEN MapInsert(MapRemove(hist, system_adm.system_id),
                   system_adm.system_id, system_adm.status)
    ELSE hist

\* lines 37 and 60: remove, then insert the new status
HistoryAfter(hist, system_adm, sends) ==
    MapInsert(MapRemove(hist, system_adm.system_id),
              system_adm.system_id, system_adm.status)

\* variant: the new status is recorded before the send is tried
HistoryAfterFailedSend_Records(hist, system_adm) ==
    MapInsert(MapRemove(hist, system_adm.system_id),
              system_adm.system_id, system_adm.status)

\* lines 37 and 53-57: the entry was removed, and the return on a failed
\* send comes before the insert
HistoryAfterFailedSend(hist, system_adm) ==
    MapRemove(hist, system_adm.system_id)

NoMessage == [kind |-> "none", system_adm |-> SystemAdm(0, NoStatus)]

\* what is observed of a loop step: the entry, the history entry removed
\* for it, whether a message was sent ("none", "sent", "failed"), the
\* message the channel accepted, whether the channel was open, and the
\* entries the pass left unvisited when it failed
NoStep ==
    [some |-> FALSE, system_adm |-> SystemAdm(0, NoStatus),
     prev_adm |-> NoStatus, sent |-> "none", message |-> NoMessage,
     open |-> TRUE, rest |-> <<>>]

\* the status kinds a list gives system id, in the order of the list
KindsOf(list, id) ==
    LET entries == SelectSeq(list, LAMBDA e : e.system_id = id)
    IN [j \in DOMAIN entries |-> entries[j].status.kind]

\* what is observed of the list a pass iterates: the list, and the systems
\* it classifies exactly as the list of the pass before did
NoPass == [list |-> <<>>, repeated |-> {}]

PassOf(list, before) ==
    [list |-> list,
     repeated |-> {id \in SystemIds :
                     /\ KindsOf(list, id) # <<>>
                     /\ KindsOf(list, id) = KindsOf(before.list, id)}]

NotifyInit ==
    /\ history = <<>>
    /\ n_pc = "start"
    /\ system_adms = <<>>
    /\ n_step = NoStep
    /\ n_pass = NoPass

\* what load_configuration can find at start: no adm.toml, one written by
\* an earlier run, or one that does not parse
ConfigurationFiles == {NoFile, File(MapInsert(<<>>, "1DQ1-A", "Red")), BadFile}

\* main goes on only when load_configuration returned Ok
AdmLoaded ==
    /\ config_file \in ConfigurationFiles
    /\ load_configuration(config_file).ok
    /\ configuration = load_configuration(config_file).importance
    /\ systems = <<>>
    /\ adm_call = NoCall
    /\ config_call = NoConfigCall

\* send_adm_notifications up to the for loop: the status list is fetched
send_adm_notifications_enter ==
    /\ \E result \in SovereigntyResults :
         \E fetch_fails \in [SystemIds -> 0..MaxStructures] :
           /\ \A id \in SystemIds : fetch_fails[id] <= Fetches(result, systems, id)
           /\ LET out == get_adm_status(result, systems, configuration, fetch_fails)
              IN /\ systems' = out.cache
                 /\ system_adms' = out.systems
                 /\ n_pass' = PassOf(out.systems, n_pass)
    /\ n_pc' = "loop"
    /\ n_step' = NoStep
    /\ UNCHANGED <<history, configuration, config_file, adm_call, config_call>>
    /\ UNCHANGED <<bot_vars, input_vars, tracker_vars, delta_vars, select_vars, cache_vars>>

\* run, first iteration: last_adm_update is None
NotifierFirstPass ==
    /\ n_pc = "start"
    /\ send_adm_notifications_enter

\* run, a later iteration with the hour elapsed
NotifierPassDue ==
    /\ n_pc = "wait"
    /\ send_adm_notifications_enter

\* variant: run ignores the error of a pass and waits for the next one
RunAfterPass_Retries(ok) == "wait"

\* run, lines 68-77: `send_adm_notifications().await?` returns the error of
\* a pass from run, an Ok pass goes on to the sleep
RunAfterPass(ok) == IF ok THEN "wait" ELSE "stopped"

\* one iteration of the for loop of send_adm_notifications
NotifierStep ==
    /\ n_pc = "loop"
    /\ system_adms # <<>>
    /\ LET system_adm == Head(system_adms)
           prev_adm == prev_adm_of(history, system_adm.system_id)
           sends == Sends(system_adm.status, prev_adm)
       IN IF sends /\ ~chan_open
          THEN /\ history' = HistoryAfterFailedSend(history, system_adm)
               /\ n_pc' = RunAfterPass(FALSE)
               /\ system_adms' = <<>>
               /\ n_step' = [some |-> TRUE, system_adm |-> system_adm,
                             prev_adm |-> prev_adm, sent |-> "failed",
                             message |-> NoMessage,
                             open |-> chan_open, rest |-> Tail(system_adms)]
          ELSE /\ history' = HistoryAfter(history, system_adm, sends)
               /\ n_pc' = "loop"
               /\ system_adms' = Tail(system_adms)
               /\ n_step' = [some |-> TRUE, system_adm |-> system_adm,
                             prev_adm |-> prev_adm,
                             sent |-> IF sends THEN "sent" ELSE "none",
                             message |-> IF sends THEN NotifyAdm(system_adm)
                                         ELSE NoMessage,
                             open |-> chan_open, rest |-> <<>>]
    /\ UNCHANGED n_pass
    /\ UNCHANGED <<bot_vars, input_vars, tracker_vars, delta_vars, select_vars, adm_vars, cache_vars>>

\* the for loop is over and send_adm_notifications returns Ok
NotifierPassEnd ==
    /\ n_pc = "loop"
    /\ system_adms = <<>>
    /\ n_pc' = RunAfterPass(TRUE)
    /\ UNCHANGED <<history, system_adms, n_step, n_pass>>
    /\ UNCHANGED <<bot_vars, input_vars, tracker_vars, delta_vars, select_vars, adm_vars, cache_vars>>

\* ------------------------------------------------ the read-through cache
\* get_alliance, get_corporation and get_system are the same code over
\* three maps, each behind its own RwLock
Kinds == {"alliance", "corporation", "system"}
\* the ids asked for: two systems, one alliance, one corporation
InfoIds(kind) == IF kind = "system" THEN SystemIds ELSE {1}
Callers == {1, 2}
Versions == {1, 2}

\* what the data source serves for an id; it may change over time
EsiValue(kind, id, version) ==
    CASE kind = "system" /\ version = 1 -> EsiSystemName(id)
      [] kind = "system" /\ version = 2 -> IF id = 1 THEN "1DQ1-A*" ELSE "Jita*"
      [] kind = "alliance" /\ version = 1 -> IF id = 1 THEN "A1" ELSE "A2"
      [] kind = "alliance" /\ version = 2 -> IF id = 1 THEN "A1*" ELSE "A2*"
      [] kind = "corporation" /\ version = 1 -> IF id = 1 THEN "C1" ELSE "C2"
      [] kind = "corporation" /\ version = 2 -> IF id = 1 THEN "C1*" ELSE "C2*"

\* the map of a kind
InfoMap(kind) ==
    CASE kind = "alliance" -> alliances
      [] kind = "corporation" -> corporations
      [] kind = "system" -> systems

NoValue == [ok |-> FALSE, value |-> ""]
OkValue(v) == [ok |-> TRUE, value |-> v]

\* a get call of a caller: where it is, its key, its result, whether it
\* fetched ("none", "ok", "err"), whether it was started while the other
\* caller was fetching the same key and how that fetch ended ("no",
\* "pending", "ok", "err"), and, when the caller asks for the same key a
\* second time right after its first call, the result and the fetch of
\* the first call
NoPrev == [some |-> FALSE, result |-> NoValue, fetch |-> "none"]
IdleCall ==
    [pc |-> "idle", kind |-> "system", id |-> 0, result |-> NoValue,
     fetch |-> "none", during |-> "no", prev |-> NoPrev]

CacheInit ==
    /\ alliances = <<>>
    /\ corporations = <<>>
    /\ info_lock = [k \in Kinds |-> 0]
    /\ info_call = [c \in Callers |-> IdleCall]
    /\ esi_version = 1

\* variant: the lookup never finds an entry
Lookup_AlwaysMiss(map, id) == NoValue

\* systems.get(&id)
Lookup(map, id) ==
    IF id \in DOMAIN map THEN OkValue(map[id]) ELSE NoValue

\* variant: a failed fetch leaves an empty value under the id
MapAfterFetchErr_Inserts(map, id) == MapInsert(map, id, "")

\* `self.esi.get_system(id).await?` returns before the insert
MapAfterFetchErr(map, id) == map

\* variant: the guard is dropped before the fetch
LockAfterMiss_Released(c) == 0

\* the guard `let mut systems = self.systems.write().await` lives to the end
\* of the function, so a miss keeps the lock during the fetch
LockAfterMiss(c) == c

\* the maps after value is inserted under id in the map of kind
InfoInsert(kind, id, value) ==
    /\ alliances' = IF kind = "alliance" THEN MapInsert(alliances, id, value)
                    ELSE alliances
    /\ corporations' = IF kind = "corporation"
                       THEN MapInsert(corporations, id, value)
                       ELSE corporations
    /\ systems' = IF kind = "system" THEN MapInsert(systems, id, value)
                  ELSE systems

\* the other caller, told how the fetch it was started during has ended
FetchEnded(calls, c, outcome) ==
    [o \in Callers |->
        IF o # c /\ calls[o].pc = "waiting" /\ calls[o].during = "pending"
           /\ calls[o].kind = calls[c].kind /\ calls[o].id = calls[c].id
        THEN [calls[o] EXCEPT !.during = outcome]
        ELSE calls[o]]

\* whether the other caller is fetching this key when c starts
StartedDuring(c, kind, id) ==
    IF \E o \in Callers \ {c} : /\ info_call[o].pc = "fetching"
                                 /\ info_call[o].kind = kind
                                 /\ info_call[o].id = id
    THEN "pending" ELSE "no"

\* a caller calls get_<kind>(id) and waits for the write lock
GetStart(c) ==
    /\ info_call[c].pc = "idle"
    /\ \E kind \in Kinds : \E id \in InfoIds(kind) :
         info_call' = [info_call EXCEPT ![c] =
            [@ EXCEPT !.pc = "waiting", !.kind = kind, !.id = id,
                      !.during = StartedDuring(c, kind, id)]]
    /\ UNCHANGED <<alliances, corporations, systems, info_lock, esi_version>>
    /\ UNCHANGED <<configuration, config_file, adm_call, config_call>>
    /\ UNCHANGED <<bot_vars, input_vars, tracker_vars, delta_vars, select_vars, notify_vars>>

\* the lock is granted and the map looked up: a hit returns the clone, a
\* miss goes on to the fetch
GetLocked(c) ==
    /\ info_call[c].pc = "waiting"
    /\ info_lock[info_call[c].kind] = 0
    /\ LET kind == info_call[c].kind
           id == info_call[c].id
           found == Lookup(InfoMap(kind), id)
       IN IF found.ok
          THEN /\ info_call' = [info_call EXCEPT ![c] =
                     [@ EXCEPT !.pc = "done", !.result = found]]
               /\ UNCHANGED info_lock
          ELSE /\ info_call' = [info_call EXCEPT ![c] = [@ EXCEPT !.pc = "fetching"]]
               /\ info_lock' = [info_lock EXCEPT ![kind] = LockAfterMiss(c)]
    /\ UNCHANGED <<alliances, corporations, systems, esi_version>>
    /\ UNCHANGED <<configuration, config_file, adm_call, config_call>>
    /\ UNCHANGED <<bot_vars, input_vars, tracker_vars, delta_vars, select_vars, notify_vars>>

\* the fetch succeeds: insert, return the value, drop the guard
FetchOk(c) ==
    /\ info_call[c].pc = "fetching"
    /\ LET kind == info_call[c].kind
           id == info_call[c].id
           value == EsiValue(kind, id, esi_version)
       IN /\ InfoInsert(kind, id, value)
          /\ info_call' = [FetchEnded(info_call, c, "ok") EXCEPT ![c] =
                [@ EXCEPT !.pc = "done", !.result = OkValue(value),
                          !.fetch = "ok"]]
          /\ info_lock' = [info_lock EXCEPT ![kind] = 0]
    /\ UNCHANGED <<esi_version, configuration, config_file, adm_call, config_call>>
    /\ UNCHANGED <<bot_vars, input_vars, tracker_vars, delta_vars, select_vars, notify_vars>>

\* the fetch fails: `?` returns the error, nothing is inserted
FetchErr(c) ==
    /\ info_call[c].pc = "fetching"
    /\ info_call' = [FetchEnded(info_call, c, "err") EXCEPT ![c] =
          [@ EXCEPT !.pc = "done", !.result = NoValue, !.fetch = "err"]]
    /\ info_lock' = [info_lock EXCEPT ![info_call[c].kind] = 0]
    /\ LET kind == info_call[c].kind
           id == info_call[c].id
       IN /\ alliances' = IF kind = "alliance"
                           THEN MapAfterFetchErr(alliances, id) ELSE alliances
          /\ corporations' = IF kind = "corporation"
                              THEN MapAfterFetchErr(corporations, id)
                              ELSE corporations
          /\ systems' = IF kind = "system"
                         THEN MapAfterFetchErr(systems, id) ELSE systems
    /\ UNCHANGED esi_version
    /\ UNCHANGED <<configuration, config_file, adm_call, config_call>>
    /\ UNCHANGED <<bot_vars, input_vars, tracker_vars, delta_vars, select_vars, notify_vars>>

\* the caller has its result
GetReturn(c) ==
    /\ info_call[c].pc = "done"
    /\ info_call' = [info_call EXCEPT ![c] = IdleCall]
    /\ UNCHANGED <<alliances, corporations, systems, info_lock, esi_version>>
    /\ UNCHANGED <<configuration, config_file, adm_call, config_call>>
    /\ UNCHANGED <<bot_vars, input_vars, tracker_vars, delta_vars, select_vars, notify_vars>>

\* the caller has the result of its first call and calls again for the
\* same key
GetAgain(c) ==
    /\ info_call[c].pc = "done"
    /\ ~info_call[c].prev.some
    /\ info_call' = [info_call EXCEPT ![c] =
          [@ EXCEPT !.pc = "waiting", !.result = NoValue, !.fetch = "none",
                    !.during = StartedDuring(c, info_call[c].kind, info_call[c].id),
                    !.prev = [some |-> TRUE,
                              result |-> info_call[c].result,
                              fetch |-> info_call[c].fetch]]]
    /\ UNCHANGED <<alliances, corporations, systems, info_lock, esi_version>>
    /\ UNCHANGED <<configuration, config_file, adm_call, config_call>>
    /\ UNCHANGED <<bot_vars, input_vars, tracker_vars, delta_vars, select_vars, notify_vars>>

\* the data source changes what it serves
EsiChange ==
    /\ esi_version' = IF esi_version = 1 THEN 2 ELSE 1
    /\ UNCHANGED <<alliances, corporations, systems, info_lock, info_call>>
    /\ UNCHANGED <<configuration, config_file, adm_call, config_call>>
    /\ UNCHANGED <<bot_vars, input_vars, tracker_vars, delta_vars, select_vars, notify_vars>>

GetStartAny == \E c \in Callers : GetStart(c)
GetLockedAny == \E c \in Callers : GetLocked(c)
FetchOkAny == \E c \in Callers : FetchOk(c)
FetchErrAny == \E c \in Callers : FetchErr(c)
GetReturnAny == \E c \in Callers : GetReturn(c)
GetAgainAny == \E c \in Callers : GetAgain(c)

\* ------------------------------------------ the bot's end of the channel
\* bot::run: the receiver is put in the cell, no consumer is running, the
\* channel main created is empty
BotInit ==
    /\ command_receiver = "some"
    /\ consumers = 0
    /\ channel = <<>>
    /\ received = <<>>
    /\ bot_seen = [sent |-> 0, ready |-> 0, buffered |-> 0]

\* variant: the cell is read and keeps the receiver
take_KeepsValue(cell) == [value |-> cell, cell |-> cell]

\* Option::take: the value of the cell, and the cell left empty
take(cell) == [value |-> cell, cell |-> "none"]

\* UnboundedSender::send by one of the services: the notification, numbered
\* by its place among the sends, is appended and the sender goes on
SenderSend ==
    /\ chan_open
    /\ bot_seen.sent < MaxSent
    /\ channel' = Append(channel, bot_seen.sent + 1)
    /\ bot_seen' = [bot_seen EXCEPT !.sent = @ + 1]
    /\ UNCHANGED <<command_receiver, consumers, received>>
    /\ UNCHANGED <<input_vars, tracker_vars, delta_vars, select_vars, adm_vars, notify_vars, cache_vars>>

\* Bot::ready, lines 95-116: the cell is taken under its write lock; a
\* consumer task is spawned when it held the receiver
BotReady ==
    /\ command_receiver # "dropped"
    /\ bot_seen.ready < MaxReady
    /\ LET taken == take(command_receiver)
       IN /\ command_receiver' = taken.cell
          /\ consumers' = IF taken.value = "some" THEN consumers + 1 ELSE consumers
    /\ bot_seen' = [bot_seen EXCEPT !.ready = @ + 1,
                                     !.buffered = IF bot_seen.ready = 0
                                                  THEN bot_seen.sent ELSE @]
    /\ UNCHANGED <<channel, received>>
    /\ UNCHANGED <<input_vars, tracker_vars, delta_vars, select_vars, adm_vars, notify_vars, cache_vars>>

\* the consumer loop, lines 102-114: recv takes the oldest notification
ConsumerRecv ==
    /\ consumers > 0
    /\ channel # <<>>
    /\ received' = Append(received, Head(channel))
    /\ channel' = Tail(channel)
    /\ UNCHANGED <<command_receiver, consumers, bot_seen>>
    /\ UNCHANGED <<input_vars, tracker_vars, delta_vars, select_vars, adm_vars, notify_vars, cache_vars>>

\* bot::run returns before any ready event: the Bot is dropped with the
\* receiver still in its cell, and what the channel holds with it
BotRunEnds ==
    /\ command_receiver = "some"
    /\ chan_open
    /\ command_receiver' = "dropped"
    /\ chan_open' = FALSE
    /\ channel' = <<>>
    /\ UNCHANGED <<consumers, received, bot_seen>>
    /\ UNCHANGED <<alliance_queue, alliance_seen, corporation_alliance, pc, process_limit, alliance_id,
                   send_notifications, alliance_ops, refresh, last_roster, rebuild,
                   pass_sent>>
    /\ UNCHANGED <<input_vars, delta_vars, select_vars, adm_vars, notify_vars, cache_vars>>

\* ---------------------------------------------------------- specifications
Init ==
    TrackerInit /\ DeltaIdle /\ SelectIdle /\ AdmInit /\ NotifyInit /\ CacheInit /\ BotInit

Next ==
    \/ RunFirstUpdate
    \/ RunFirstProcess
    \/ LoopUpdateDue
    \/ LoopUpdateNotDue
    \/ LoopProcessDue
    \/ LoopProcessNotDue
    \/ RunningBreak
    \/ FetchFails
    \/ FetchSucceeds
    \/ ApplyOp
    \/ CloseChannel

Spec == Init /\ [][Next]_vars

\* corporation_alliance_delta alone
InitDelta ==
    TrackerInit /\ DeltaInit /\ SelectIdle /\ AdmInit /\ NotifyInit /\ CacheInit /\ BotInit

SpecDelta == InitDelta /\ [][DeltaCall]_vars

\* select_adm_status alone
InitSelect ==
    TrackerInit /\ DeltaIdle /\ SelectInit /\ AdmInit /\ NotifyInit /\ CacheInit /\ BotInit

SpecSelect == InitSelect /\ [][SelectCall]_vars

\* the status machine and the importance configuration
AdmNext ==
    \/ AdmConfigure
    \/ ConfigureReturn
    \/ GetAdmStatus
    \/ AdmReturn

SpecAdm == Init /\ [][AdmNext]_vars

\* process_alliance_queue on its own: one call on a queue of up to three
\* alliances with any limit
DrainAlliances == Alliances \cup {3}
DrainQueues == UNION {Orders(S) : S \in SUBSET DrainAlliances}
DrainLimits == {NoLimit} \cup {SomeLimit(n) : n \in 0..MaxLimit}

InitDrain ==
    /\ alliance_queue \in DrainQueues
    /\ drain_input \in {[queue |-> alliance_queue, limit |-> l, seen |-> {},
                          membership |-> <<>>] : l \in DrainLimits}
    /\ pc = "call"
    /\ alliance_seen = {}
    /\ corporation_alliance = <<>>
    /\ chan_open = TRUE
    /\ process_limit = 0
    /\ alliance_id = 0
    /\ send_notifications = FALSE
    /\ alliance_ops = <<>>
    /\ refresh = NoRefresh
    /\ last_roster = [a \in DrainAlliances |-> NoRoster]
    /\ rebuild = NoRebuild
    /\ pass_sent = <<>>
    /\ DeltaIdle /\ SelectIdle /\ AdmInit /\ NotifyInit /\ CacheInit /\ BotInit

DrainCall ==
    /\ pc = "call"
    /\ process_alliance_queue_enter(drain_input.limit)
    /\ UNCHANGED <<bot_vars, input_vars, delta_vars, select_vars, adm_vars, notify_vars,
                   cache_vars>>

DrainNext ==
    \/ DrainCall
    \/ RunningBreak
    \/ FetchFails
    \/ FetchSucceeds
    \/ ApplyOp
    \/ CloseChannel

SpecDrain == InitDrain /\ [][DrainNext]_vars

\* one unlimited pass over both alliances, in either order, started in a
\* state earlier passes have left: any alliances seen, any corporations
\* mapped to seen alliances
PassQueues == Orders(Alliances)
PassMemberships(seen) ==
    {m \in UNION {[S -> seen] : S \in SUBSET Corps} :
        \A a \in seen : Cardinality(old_corporations_of(m, a)) <= MaxRoster}

InitPass ==
    /\ alliance_queue \in PassQueues
    /\ alliance_seen \in SUBSET Alliances
    /\ corporation_alliance \in PassMemberships(alliance_seen)
    /\ drain_input = [queue |-> alliance_queue, limit |-> NoLimit,
                       seen |-> alliance_seen, membership |-> corporation_alliance]
    /\ pc = "call"
    /\ chan_open = TRUE
    /\ process_limit = 0
    /\ alliance_id = 0
    /\ send_notifications = FALSE
    /\ alliance_ops = <<>>
    /\ refresh = NoRefresh
    /\ last_roster = [a \in Alliances |->
                         IF a \in alliance_seen
                         THEN [some |-> TRUE,
                               ids |-> old_corporations_of(corporation_alliance, a)]
                         ELSE NoRoster]
    /\ rebuild = NoRebuild
    /\ pass_sent = <<>>
    /\ DeltaIdle /\ SelectIdle /\ AdmInit /\ NotifyInit /\ CacheInit /\ BotInit

SpecPass == InitPass /\ [][DrainNext]_vars

\* the status notifier, started on a configuration loaded from adm.toml
InitNotify ==
    TrackerInit /\ DeltaIdle /\ SelectIdle /\ AdmLoaded /\ NotifyInit /\ CacheInit /\ BotInit

NotifyNext ==
    \/ NotifierFirstPass
    \/ NotifierPassDue
    \/ NotifierStep
    \/ NotifierPassEnd
    \/ CloseChannel

SpecNotify == InitNotify /\ [][NotifyNext]_vars

\* the status notifier next to the on-demand report (commands::adm::run),
\* which calls get_adm_status; the notifier moves on once the report's call
\* has been taken by its caller
NotifierTurn ==
    /\ adm_call.state = "none"
    /\ NotifyNext

ReportNext ==
    \/ NotifierTurn
    \/ GetAdmStatus
    \/ AdmReturn

SpecReport == InitNotify /\ [][ReportNext]_vars

\* the importance configuration on its own: loaded at start, then set by
\* the configuration command
InitConfig ==
    TrackerInit /\ DeltaIdle /\ SelectIdle /\ AdmLoaded /\ NotifyInit /\ CacheInit /\ BotInit

ConfigNext ==
    \/ AdmConfigure
    \/ ConfigureReturn

SpecConfig == InitConfig /\ [][ConfigNext]_vars

\* process_alliance_queue called again and again with one limit and no
\* rebuild in between, as run's loop does while no rebuild is due: the next
\* call starts on what the last one left
DrainRepeat ==
    /\ pc = "loop_update"
    /\ pc' = "call"
    /\ drain_input' = [drain_input EXCEPT !.queue = alliance_queue,
                                           !.seen = alliance_seen,
                                           !.membership = corporation_alliance]
    /\ UNCHANGED <<alliance_queue, alliance_seen, corporation_alliance,
                   chan_open, process_limit, alliance_id,
                   send_notifications, alliance_ops, refresh, last_roster,
                   rebuild, pass_sent>>
    /\ UNCHANGED <<bot_vars, delta_vars, select_vars, adm_vars, notify_vars, cache_vars>>

DrainRepeatNext ==
    \/ DrainNext
    \/ DrainRepeat

\* the task is scheduled, every roster fetch returns, with a roster or an
\* error, and the loop comes round to the next call; nothing makes the
\* channel close
SpecDrainFair ==
    /\ InitDrain
    /\ [][DrainRepeatNext]_vars
    /\ WF_vars(DrainCall)
    /\ WF_vars(RunningBreak)
    /\ WF_vars(FetchFails \/ FetchSucceeds)
    /\ WF_vars(ApplyOp)
    /\ WF_vars(DrainRepeat)

\* the tracker's run loop against a data source that serves alliance lists
\* longer than the limit of a scheduled drain, and no roster
RunAlliances == 1..MaxQueue

RunResults ==
    {[ok |-> FALSE, ids |-> <<>>]}
        \cup {[ok |-> TRUE, ids |-> [k \in 1..n |-> k]] : n \in 0..MaxQueue}

InitRun ==
    /\ alliance_queue = <<>>
    /\ alliance_seen = {}
    /\ corporation_alliance = <<>>
    /\ chan_open = TRUE
    /\ pc = "start"
    /\ process_limit = 0
    /\ alliance_id = 0
    /\ send_notifications = FALSE
    /\ alliance_ops = <<>>
    /\ refresh = NoRefresh
    /\ last_roster = [a \in RunAlliances |-> NoRoster]
    /\ rebuild = NoRebuild
    /\ pass_sent = <<>>
    /\ drain_input = NoInput
    /\ DeltaIdle /\ SelectIdle /\ AdmInit /\ NotifyInit /\ CacheInit /\ BotInit

\* run, line 157, on these lists
RunFirstUpdateList ==
    /\ pc = "start"
    /\ \E result \in RunResults : update_alliance_queue(result)
    /\ pc' = "first_process"
    /\ UNCHANGED <<bot_vars, input_vars, delta_vars, select_vars, adm_vars, notify_vars, cache_vars>>

\* run, lines 161-168, on these lists
LoopUpdateDueList ==
    /\ pc = "loop_update"
    /\ \E result \in RunResults : update_alliance_queue(result)
    /\ pc' = "loop_process"
    /\ UNCHANGED <<bot_vars, input_vars, delta_vars, select_vars, adm_vars, notify_vars, cache_vars>>

RunNext ==
    \/ RunFirstUpdateList
    \/ RunFirstProcess
    \/ LoopUpdateDueList
    \/ LoopUpdateNotDue
    \/ LoopProcessDue
    \/ LoopProcessNotDue
    \/ RunningBreak
    \/ FetchFails

SpecRun == InitRun /\ [][RunNext]_vars

\* the bot's end of the channel next to the services that send
InitBot ==
    TrackerInit /\ DeltaIdle /\ SelectIdle /\ AdmInit /\ NotifyInit /\ CacheInit /\ BotInit

BotNext ==
    \/ SenderSend
    \/ BotReady
    \/ ConsumerRecv
    \/ BotRunEnds

SpecBot == InitBot /\ [][BotNext]_vars

\* the cache under two concurrent callers
CacheNext ==
    \/ GetStartAny
    \/ GetLockedAny
    \/ FetchOkAny
    \/ FetchErrAny
    \/ GetReturnAny
    \/ GetAgainAny
    \/ EsiChange

SpecCache == Init /\ [][CacheNext]_vars

\* ------------------------------------------------ claims on the tracker
\* a refresh whose ops were all applied with the channel open at every send
RefreshDone == refresh.state = "complete" /\ refresh.open

\* C1: two refresh cycles of one alliance X, channel open. X unseen and the
\* roster fetched is {10,20}: 10 and 20 map to X, nothing was sent, X is seen.
\* Next cycle (X seen, {10,20} mapped to it) the roster is {20,30}: exactly two
\* messages were sent, a leave for 10 and a join for 30, and exactly {20,30}
\* map to X.
C1_TwoCycleScenario ==
    LET X == refresh.alliance
    IN /\ (RefreshDone /\ ~refresh.was_seen /\ ~refresh.dups
              /\ refresh.roster.ids = {10, 20})
          => /\ {10, 20} \subseteq DOMAIN corporation_alliance
             /\ corporation_alliance[10] = X
             /\ corporation_alliance[20] = X
             /\ refresh.emitted = <<>>
             /\ X \in alliance_seen
       /\ (RefreshDone /\ refresh.was_seen /\ ~refresh.dups
              /\ refresh.old = {10, 20} /\ refresh.roster.ids = {20, 30})
          => /\ Len(refresh.emitted) = 2
             /\ Range(refresh.emitted)
                  = {NotifyCorpLeftAlliance(X, 10), NotifyCorpJoinAlliance(X, 30)}
             /\ old_corporations_of(corporation_alliance, X) = {20, 30}

\* C2: for every Add(corp) computed for an alliance that was seen when popped,
\* corp maps to the alliance and a join message for (alliance, corp) was sent.
C2_AddNotifiesJoin ==
    (RefreshDone /\ refresh.was_seen)
    => \A c \in Corps :
         Add(c) \in refresh.ops
         => /\ c \in DOMAIN corporation_alliance
            /\ corporation_alliance[c] = refresh.alliance
            /\ \E i \in DOMAIN refresh.emitted :
                 refresh.emitted[i] = NotifyCorpJoinAlliance(refresh.alliance, c)

\* C3: for every Del(corp) computed for an alliance that was seen when popped,
\* corp has no entry in the map and a leave message for (alliance, corp) was
\* sent; the refresh of an alliance not yet seen sends nothing.
C3_DelRemovesAndNotifiesLeft ==
    RefreshDone
    => /\ \A c \in Corps :
            Del(c) \in refresh.ops
            => /\ c \notin DOMAIN corporation_alliance
               /\ refresh.was_seen
                  => \E i \in DOMAIN refresh.emitted :
                       refresh.emitted[i] = NotifyCorpLeftAlliance(refresh.alliance, c)
       /\ ~refresh.was_seen => refresh.emitted = <<>>

C3_Witness ==
    /\ RefreshDone
    /\ refresh.was_seen
    /\ \E c \in Corps : Del(c) \in refresh.ops
    /\ refresh.emitted # <<>>

\* C4: the first successful roster fetch of an alliance sends nothing, whatever
\* the roster; a later successful fetch whose roster has the ids of the roster
\* recorded by the previous successful fetch sends nothing.
C4_FirstAndUnchangedSilent ==
    refresh.roster.some
    => /\ ~refresh.prev.some => refresh.emitted = <<>>
       /\ (refresh.prev.some /\ refresh.roster.ids = refresh.prev.ids)
          => refresh.emitted = <<>>

\* an unchanged roster that still yields an op: a corporation taken over by
\* another alliance in between, or listed twice, is added again
C4_Witness ==
    /\ RefreshDone
    /\ refresh.was_seen
    /\ refresh.prev.some
    /\ ~refresh.dups
    /\ refresh.roster.ids = refresh.prev.ids
    /\ refresh.ops # {}

\* ------------------------------------------- claims on the delta kernel
Count(list, c) == Cardinality({i \in DOMAIN list : list[i] = c})

NoDuplicates(list) == Cardinality(Range(list)) = Len(list)

\* the set of ids after the ops are applied to it in order
RECURSIVE ApplyOps(_, _)
ApplyOps(ids, ops) ==
    IF ops = <<>> THEN ids
    ELSE ApplyOps(IF Head(ops).op = "Add" THEN ids \cup {Head(ops).corporation}
                  ELSE ids \ {Head(ops).corporation},
                  Tail(ops))

OpIds(ops) == {ops[i].corporation : i \in DOMAIN ops}

DeltaRoundTrip ==
    /\ ApplyOps(Range(d_old), d_ops) = Range(d_new)
    /\ OpIds(d_ops) \cap (Range(d_old) \cap Range(d_new)) = {}

\* C5 as stated: for all old lists A and new lists B, duplicates allowed, the
\* ops of delta(A,B) applied to the ids of A give the ids of B, and no op names
\* an id that occurs in both A and B.
C5_RoundTripAllLists == d_pc = "done" => DeltaRoundTrip

\* the part of C5 the code does satisfy: the same, for the lists A and B in
\* which every id occurring in both occurs equally often in each (all
\* duplicate-free lists among them).
C5_RoundTripEqualMultiplicity ==
    (d_pc = "done"
        /\ \A c \in Range(d_old) \cap Range(d_new) : Count(d_old, c) = Count(d_new, c))
    => DeltaRoundTrip

Occurrences(ops, op) == Cardinality({i \in DOMAIN ops : ops[i] = op})

\* C6: for duplicate-free A and B the ops are exactly one Del per id of A\B
\* and one Add per id of B\A, |A\B|+|B\A| ops in all; old {1,2,3} and new {2,4}
\* give the three ops Del(1), Del(3), Add(4); one id more in the roster gives
\* exactly [Add(x)], one id less exactly [Del(x)].
C6_ExactOpsDuplicateFree ==
    (d_pc = "done" /\ NoDuplicates(d_old) /\ NoDuplicates(d_new))
    => LET A == Range(d_old)
           B == Range(d_new)
       IN /\ \A c \in A \ B : Occurrences(d_ops, Del(c)) = 1
          /\ \A c \in B \ A : Occurrences(d_ops, Add(c)) = 1
          /\ Range(d_ops) \subseteq {Del(c) : c \in A \ B} \cup {Add(c) : c \in B \ A}
          /\ Len(d_ops) = Cardinality(A \ B) + Cardinality(B \ A)
          /\ (A = {1, 2, 3} /\ B = {2, 4})
             => Len(d_ops) = 3 /\ Range(d_ops) = {Del(1), Del(3), Add(4)}
          /\ \A x \in DeltaIds :
               /\ (x \notin A /\ B = A \cup {x}) => d_ops = <<Add(x)>>
               /\ (x \in A /\ B = A \ {x}) => d_ops = <<Del(x)>>

C6_Witness ==
    /\ d_pc = "done"
    /\ d_old = <<1, 2, 3>>
    /\ d_new = <<2, 4>>
    /\ Len(d_ops) = 3

Relabel(op) == IF op.op = "Add" THEN Del(op.corporation) ELSE Add(op.corporation)

\* C7: whatever the iteration orders, the ops of delta(B,A) are the ops of
\* delta(A,B) with Add and Del exchanged, over the same ids and as many.
C7_SwapSymmetry ==
    d_pc = "done"
    => \A order \in DeltaOrders(d_new, d_old) :
         LET swapped == corporation_alliance_delta(d_new, d_old, order)
         IN /\ Range(swapped) = {Relabel(d_ops[i]) : i \in DOMAIN d_ops}
            /\ Len(swapped) = Len(d_ops)
            /\ OpIds(swapped) = OpIds(d_ops)

C7_Witness ==
    /\ d_pc = "done"
    /\ ~NoDuplicates(d_old)
    /\ \E i, j \in DOMAIN d_ops : d_ops[i].op = "Add" /\ d_ops[j].op = "Del"

\* ------------------------------------------------- claims on classification
Classified == s_status # NoStatus

Severity(status) ==
    CASE status.kind = "Good" -> 0
      [] status.kind = "Warning" -> 1
      [] status.kind = "Critical" -> 2

\* C8: the call returns one status that carries the metric; it is Critical
\* when the metric is at most the critical threshold, whatever the warning
\* threshold, else Warning when the metric is at most the warning threshold,
\* else Good. Both comparisons are inclusive. With critical 1.0, warning 1.2
\* and with critical 1.2, warning 2.0 the metric 1.0 is Critical; a metric
\* equal to the warning threshold (and above the critical one) is Warning.
C8_PriorityAndBoundaries ==
    Classified =>
        /\ s_status.kind \in {"Good", "Warning", "Critical"}
        /\ s_status.adm = s_adm
        /\ s_status.kind = "Critical" <=> s_adm <= s_critical
        /\ s_status.kind = "Warning" <=> (s_adm > s_critical /\ s_adm <= s_warning)
        /\ s_status.kind = "Good" <=> (s_adm > s_critical /\ s_adm > s_warning)
        /\ (s_adm = 10 /\ s_warning = 12 /\ s_critical = 10)
              => s_status = [kind |-> "Critical", adm |-> 10]
        /\ (s_adm = 10 /\ s_warning = 20 /\ s_critical = 12)
              => s_status = [kind |-> "Critical", adm |-> 10]
        /\ (s_adm = s_warning /\ s_adm > s_critical)
              => s_status.kind = "Warning"

C8_Witness ==
    /\ Classified
    /\ s_adm = 10 /\ s_warning = 12 /\ s_critical = 10
    /\ s_status.kind = "Critical"

\* C9: with the thresholds fixed, no metric at or above the classified one
\* gets a more severe status, Good < Warning < Critical.
C9_MonotonicInMetric ==
    Classified =>
        \A m2 \in s_adm..MaxAdm :
            Severity(s_status)
                >= Severity(select_adm_status(m2, s_warning, s_critical))

C9_Witness ==
    /\ Classified
    /\ s_critical < s_adm /\ s_adm <= s_warning /\ s_warning < MaxAdm
    /\ s_status.kind = "Warning"

\* ------------------------------------------------ claims on get_adm_status
Returned == adm_call.state = "returned"

\* the status the thresholds give a metric, written out
StatusKind(adm, warning, critical) ==
    IF adm <= critical THEN "Critical"
    ELSE IF adm <= warning THEN "Warning"
    ELSE "Good"

\* C10: the thresholds are Red 4.0/4.2, Yellow 3.0/3.2, Green 1.0/1.2
\* (critical/warning), the critical one below the warning one; a structure
\* of a system without an entry in the configuration is classified with
\* 1.0/1.2; a structure of a system configured Red is Warning at 4.1,
\* Critical at 3.9 and Good at 4.3.
C10_ImportanceThresholds ==
    /\ critical_threshold("Red") = 40 /\ warning_threshold("Red") = 42
    /\ critical_threshold("Yellow") = 30 /\ warning_threshold("Yellow") = 32
    /\ critical_threshold("Green") = 10 /\ warning_threshold("Green") = 12
    /\ \A importance \in {"Red", "Yellow", "Green"} :
          critical_threshold(importance) < warning_threshold(importance)
    /\ Returned =>
          \A i \in DOMAIN adm_call.systems :
             LET entry == adm_call.systems[i]
                 name == EsiSystemName(entry.system_id)
             IN /\ name \notin DOMAIN configuration
                    => entry.status.kind = StatusKind(entry.status.adm, 12, 10)
                /\ (name \in DOMAIN configuration /\ configuration[name] = "Red")
                    => /\ entry.status.adm = 41 => entry.status.kind = "Warning"
                       /\ entry.status.adm = 39 => entry.status.kind = "Critical"
                       /\ entry.status.adm = 43 => entry.status.kind = "Good"

C10_Witness ==
    /\ Returned
    /\ "1DQ1-A" \in DOMAIN configuration /\ configuration["1DQ1-A"] = "Red"
    /\ adm_call.systems = <<SystemAdm(1, Warning(41)), SystemAdm(2, Good(41))>>

\* ---------------------------------------------------- claims on the notifier
\* the transition of the step observed last: previous entry -> new status
StepIs(prev_kind, new_kind) ==
    /\ n_step.some
    /\ n_step.prev_adm.kind = prev_kind
    /\ n_step.system_adm.status.kind = new_kind

\* C11: with the channel open, a step whose transition is Good->Warning,
\* Warning->Critical, no record->Warning or no record->Critical sends the
\* status notification of its system.
C11_EmittingTransitionsSend ==
    (n_step.some /\ n_step.open
        /\ (\/ StepIs("Good", "Warning")
            \/ StepIs("Warning", "Critical")
            \/ StepIs("none", "Warning")
            \/ StepIs("none", "Critical")))
    => /\ n_step.sent = "sent"
       /\ n_step.message = [kind |-> "NotifyAdm", system_adm |-> n_step.system_adm]

C11_Witness ==
    /\ StepIs("Good", "Warning")
    /\ n_step.open
    /\ n_step.sent = "sent"

StepTaken ==
    /\ n_pc = "loop"
    /\ Len(system_adms') = Len(system_adms) - 1
    /\ n_pc' = "loop"

\* C13: after a step that did not fail, the history entry of its system is
\* the new status, kind and metric, sent or not; the step changes no other
\* entry, and nothing but a step changes the history.
C13_HistoryOverwritten ==
    /\ [](n_step.some /\ n_step.sent # "failed"
            => /\ n_step.system_adm.system_id \in DOMAIN history
               /\ history[n_step.system_adm.system_id] = n_step.system_adm.status)
    /\ [][/\ StepTaken
             => LET system_adm == Head(system_adms)
                IN /\ DOMAIN history' = DOMAIN history \cup {system_adm.system_id}
                   /\ history'[system_adm.system_id] = system_adm.status
                   /\ \A id \in DOMAIN history \ {system_adm.system_id} :
                         history'[id] = history[id]
          /\ history' # history => n_pc = "loop" /\ system_adms # <<>>]_vars

C13_Witness ==
    /\ n_step.some
    /\ n_step.sent = "none"
    /\ n_step.prev_adm.kind = "Warning"
    /\ n_step.system_adm.status.kind = "Good"
    /\ history[n_step.system_adm.system_id] = n_step.system_adm.status
    /\ DOMAIN history = SystemIds

\* ------------------------------------------------------ claims on the cache
\* the second of two calls of a caller for one key has returned
SecondDone(c) == info_call[c].pc = "done" /\ info_call[c].prev.some

EntriesKept(map, map_after) ==
    \A id \in DOMAIN map : id \in DOMAIN map_after /\ map_after[id] = map[id]

\* C14: for each of the three maps, the second of two calls in sequence for
\* one id, the first having returned Ok, returns the same value and fetches
\* nothing, so a first call that missed makes the one fetch of the two; an
\* entry once inserted is never changed or removed, and every Ok result is
\* the entry of its id, whatever the data source serves by then.
C14_SecondGetIsHit ==
    /\ [](\A c \in Callers :
            /\ (SecondDone(c) /\ info_call[c].prev.result.ok)
                => /\ info_call[c].result = info_call[c].prev.result
                   /\ info_call[c].fetch = "none"
            /\ (info_call[c].pc = "done" /\ info_call[c].result.ok)
                => /\ info_call[c].id \in DOMAIN InfoMap(info_call[c].kind)
                   /\ info_call[c].result.value
                        = InfoMap(info_call[c].kind)[info_call[c].id])
    /\ [][/\ EntriesKept(alliances, alliances')
          /\ EntriesKept(corporations, corporations')
          /\ EntriesKept(systems, systems')]_vars

C14_Witness ==
    \E c \in Callers :
        /\ SecondDone(c)
        /\ info_call[c].kind = "corporation"
        /\ info_call[c].prev.fetch = "ok"
        /\ info_call[c].result = info_call[c].prev.result
        /\ info_call[c].fetch = "none"
        /\ EsiValue(info_call[c].kind, info_call[c].id, esi_version)
              # info_call[c].result.value

\* a fetch of caller c fails in this step
FetchFailsFor(c) ==
    /\ info_call[c].pc = "fetching"
    /\ info_call'[c].pc = "done"
    /\ info_call'[c].fetch = "err"

\* C15: a failed fetch returns the error and leaves the three maps as they
\* were, without an entry for the id; the caller's next call for the id
\* fetches again, unless another caller has inserted the entry meanwhile.
C15_FailedFetchNotCached ==
    /\ [][\A c \in Callers :
            FetchFailsFor(c)
            => /\ ~info_call'[c].result.ok
               /\ info_call[c].id \notin DOMAIN InfoMap(info_call[c].kind)
               /\ alliances' = alliances
               /\ corporations' = corporations
               /\ systems' = systems]_vars
    /\ [](\A c \in Callers :
            (SecondDone(c) /\ info_call[c].prev.fetch = "err")
            => /\ ~info_call[c].prev.result.ok
               /\ info_call[c].fetch = "none"
                    => /\ info_call[c].result.ok
                       /\ info_call[c].result.value
                            = InfoMap(info_call[c].kind)[info_call[c].id])

C15_Witness ==
    \E c \in Callers :
        /\ SecondDone(c)
        /\ info_call[c].prev.fetch = "err"
        /\ info_call[c].fetch = "ok"
        /\ info_call[c].result.ok
        /\ \A o \in Callers \ {c} : info_call[o].pc = "idle"

\* C16: a call started while another caller is fetching the same key waits
\* for the lock; it misses and fetches too when that fetch has failed, and
\* it is a hit without a fetch when that fetch has succeeded. Two callers
\* are never past the lookup of one map at the same time.
C16_ConcurrentGetsBothFetch ==
    /\ \A c \in Callers, o \in Callers :
          (c # o /\ info_call[c].pc = "fetching" /\ info_call[o].pc = "fetching")
          => info_call[c].kind # info_call[o].kind
    /\ \A c \in Callers :
          /\ (info_call[c].during # "no"
                /\ (info_call[c].pc = "fetching" \/ info_call[c].fetch # "none"))
             => info_call[c].during = "err"
          /\ (info_call[c].during = "ok" /\ info_call[c].pc = "done")
             => info_call[c].fetch = "none" /\ info_call[c].result.ok

C16_Witness ==
    \E c \in Callers, o \in Callers :
        /\ c # o
        /\ info_call[o].pc = "done" /\ info_call[o].fetch = "err"
        /\ info_call[c].kind = info_call[o].kind
        /\ info_call[c].id = info_call[o].id
        /\ info_call[c].during = "err"
        /\ info_call[c].pc = "done" /\ info_call[c].fetch = "ok"

\* ------------------------------------------- claims on rebuild and drain
\* C17: after a rebuild the queue is the list the data source returned, in
\* that order, whatever was queued before; when the fetch failed the queue is
\* empty; in both cases run goes on to the drain.
C17_RebuildReplacesQueue ==
    rebuild.some
    => /\ rebuild.result.ok => alliance_queue = rebuild.result.ids
       /\ ~rebuild.result.ok => alliance_queue = <<>>
       /\ pc \in {"first_process", "loop_process"}

C17_Witness ==
    /\ rebuild.some
    /\ rebuild.result.ok
    /\ rebuild.cleared = <<1, 2>>
    /\ alliance_queue = <<2>>

\* C18: the alliances popped so far in a pass are the front of the queue the
\* pass started on, in queue order; a pass that returns without a channel
\* failure has popped min(limit, length) of them, all when there is no limit,
\* and the rest is still queued in its order.
C18_DrainPopsFront ==
    pc # "call"
    => LET start == drain_input.queue
           limit == drain_input.limit
           n == IF limit.some
                THEN (IF limit.limit <= Len(start) THEN limit.limit ELSE Len(start))
                ELSE Len(start)
           k == Len(start) - Len(alliance_queue)
       IN /\ 0 <= k /\ k <= n
          /\ alliance_queue = SubSeq(start, k + 1, Len(start))
          /\ k > 0 => refresh.alliance = start[k]
          /\ (pc = "loop_update" /\ refresh.state # "aborted") => k = n

C18_Witness ==
    /\ pc = "loop_update"
    /\ refresh.state # "aborted"
    /\ drain_input.limit = [some |-> TRUE, limit |-> 2]
    /\ drain_input.queue = <<3, 1, 2>>
    /\ alliance_queue = <<2>>

\* the roster fetch of the alliance popped in this step fails
FetchFailsStep ==
    /\ pc = "running"
    /\ alliance_queue' # alliance_queue
    /\ refresh'.state = "failed"

\* C19: the step in which a roster fetch fails pops the alliance and
\* changes neither the membership map nor the seen set and sends nothing;
\* the alliance is not in the queue afterwards and the pass is still running.
C19_FetchFailureSkips ==
    /\ [](refresh.state = "failed"
            => /\ refresh.emitted = <<>>
               /\ refresh.alliance \notin Range(alliance_queue)
               /\ pc \in {"running", "loop_update"}
               /\ refresh.alliance \in alliance_seen <=> refresh.was_seen
               /\ {c \in DOMAIN corporation_alliance :
                      corporation_alliance[c] = refresh.alliance} = refresh.old)
    /\ [][FetchFailsStep
            => /\ corporation_alliance' = corporation_alliance
               /\ alliance_seen' = alliance_seen
               /\ alliance_queue' = Tail(alliance_queue)
               /\ refresh'.alliance = Head(alliance_queue)
               /\ pc' = "running"]_vars

C19_Witness ==
    /\ refresh.state = "failed"
    /\ refresh.old # {}
    /\ refresh.was_seen
    /\ alliance_queue # <<>>
    /\ process_limit > 0
    /\ chan_open

\* C20: the seen set never loses an alliance; it gains one only in the step
\* in which that alliance's roster fetch succeeds.
C20_SeenOnlyGrows ==
    [][/\ alliance_seen \subseteq alliance_seen'
       /\ alliance_seen' # alliance_seen
            => /\ pc = "running"
               /\ alliance_queue # <<>>
               /\ alliance_seen' = alliance_seen \cup {Head(alliance_queue)}
               /\ refresh'.alliance = Head(alliance_queue)
               /\ refresh'.roster.some]_vars

C20_Witness ==
    /\ alliance_seen = {1, 2}
    /\ ~chan_open
    /\ refresh.state = "aborted"
    /\ rebuild = NoRebuild

\* --------------------------------------------- claims on a closed channel
\* the step in which the send of a leave notification fails
SendFailsStep ==
    /\ pc = "ops"
    /\ alliance_ops' # alliance_ops
    /\ Head(alliance_ops).op = "Del"
    /\ send_notifications
    /\ ~chan_open

\* C21: the step in which the send of a membership notification fails on the
\* closed channel ends the pass: the op at hand has been applied, the ops
\* behind it are dropped unapplied, nothing is popped, the queue keeps the
\* alliances not yet popped, and the pass is over.
C21_ClosedChannelStopsDrain ==
    /\ [](refresh.state = "aborted"
            => /\ pc = "loop_update"
               /\ alliance_ops = <<>>
               /\ ~refresh.open)
    /\ [][SendFailsStep
            => /\ pc' = "loop_update"
               /\ alliance_ops' = <<>>
               /\ alliance_queue' = alliance_queue
               /\ alliance_seen' = alliance_seen
               /\ refresh'.state = "aborted"
               /\ refresh'.emitted = refresh.emitted
               /\ corporation_alliance'
                    = MapRemove(corporation_alliance, Head(alliance_ops).corporation)]_vars

C21_Witness ==
    /\ refresh.state = "aborted"
    /\ alliance_queue # <<>>
    /\ \E c \in Corps :
          /\ Del(c) \in refresh.ops
          /\ c \in DOMAIN corporation_alliance
          /\ corporation_alliance[c] = refresh.alliance

\* C22 as stated: once a pass has been ended by the closed channel, run takes
\* no further step: no rebuild, no drain.
C22_RunLoopEndsAfterAbort ==
    [][refresh.state = "aborted"
         => /\ pc' = pc
            /\ rebuild' = rebuild
            /\ alliance_queue' = alliance_queue]_vars

\* ------------------------------------------- claims on the membership map
\* C29: when every op of a refresh has been applied, the corporations mapped
\* to the alliance are exactly the ids of the roster fetched, repeated ids or
\* not; an op changes the entry of its own corporation only, an Add maps a
\* corporation of the roster to the alliance, a Del removes a corporation
\* that was mapped to the alliance, and no other step changes the map.
C29_MembershipEqualsRoster ==
    /\ [](refresh.state = "complete"
            => old_corporations_of(corporation_alliance, refresh.alliance)
                  = refresh.roster.ids)
    /\ [][IF pc = "ops" /\ alliance_ops' # alliance_ops
          THEN LET op == Head(alliance_ops)
                   c == op.corporation
               IN /\ \A x \in Corps \ {c} :
                        /\ x \in DOMAIN corporation_alliance'
                             <=> x \in DOMAIN corporation_alliance
                        /\ x \in DOMAIN corporation_alliance
                             => corporation_alliance'[x] = corporation_alliance[x]
                  /\ op.op = "Add"
                       => /\ c \in refresh.roster.ids
                          /\ c \in DOMAIN corporation_alliance'
                          /\ corporation_alliance'[c] = refresh.alliance
                  /\ op.op = "Del"
                       => /\ c \in DOMAIN corporation_alliance
                          /\ corporation_alliance[c] = refresh.alliance
                          /\ c \notin DOMAIN corporation_alliance'
          ELSE corporation_alliance' = corporation_alliance]_vars

\* a roster with a repeated id that takes a corporation last seen in the
\* roster of the other alliance
C29_Witness ==
    /\ refresh.state = "complete"
    /\ refresh.dups
    /\ \E c \in refresh.roster.ids, b \in Alliances \ {refresh.alliance} :
          /\ c \notin refresh.old
          /\ c \in last_roster[b].ids
          /\ corporation_alliance[c] = refresh.alliance
    /\ \E c \in Corps : Del(c) \in refresh.ops

\* C30: for every id, with tally = occurrences in old - occurrences in new:
\* a positive tally gives exactly one Del of the id and no Add, a negative
\* one exactly one Add and no Del, zero no op; so no id is in two ops.
C30_SignOfTallyDecides ==
    d_pc = "done"
    => \A c \in DeltaIds :
         LET tally == Count(d_old, c) - Count(d_new, c)
         IN /\ tally > 0 => /\ Occurrences(d_ops, Del(c)) = 1
                            /\ Occurrences(d_ops, Add(c)) = 0
            /\ tally < 0 => /\ Occurrences(d_ops, Add(c)) = 1
                            /\ Occurrences(d_ops, Del(c)) = 0
            /\ tally = 0 => /\ Occurrences(d_ops, Add(c)) = 0
                            /\ Occurrences(d_ops, Del(c)) = 0

C30_Witness ==
    /\ d_pc = "done"
    /\ d_old = <<1, 1, 2>>
    /\ d_new = <<1, 2, 2, 3>>
    /\ Range(d_ops) = {Del(1), Add(2), Add(3)}
    /\ Len(d_ops) = 3

\* ------------------------------------------- claims on the notifier's end
\* the loop step in which the send fails
NotifierSendFails ==
    /\ n_pc = "loop"
    /\ system_adms # <<>>
    /\ system_adms' # system_adms
    /\ Sends(Head(system_adms).status,
             prev_adm_of(history, Head(system_adms).system_id))
    /\ ~chan_open

\* C23: the step in which a send fails ends the pass at that system: the
\* systems behind it are left unvisited, their history entries as they were,
\* and run has returned; from then on the notifier does nothing, no pass is
\* started again.
C23_SendFailureEndsNotifier ==
    /\ [](n_step.sent = "failed" => n_pc = "stopped" /\ system_adms = <<>>)
    /\ [][NotifierSendFails
            => /\ n_pc' = "stopped"
               /\ n_step'.sent = "failed"
               /\ n_step'.rest = Tail(system_adms)
               /\ \A id \in DOMAIN history \ {Head(system_adms).system_id} :
                     id \in DOMAIN history' /\ history'[id] = history[id]]_vars
    /\ [][n_pc = "stopped" => UNCHANGED <<history, n_pc, system_adms, n_step, n_pass>>]_vars

C23_Witness ==
    /\ n_pc = "stopped"
    /\ n_step.sent = "failed"
    /\ n_step.rest # <<>>
    /\ \E i \in DOMAIN n_step.rest :
          n_step.rest[i].system_id # n_step.system_adm.system_id
    /\ history # <<>>

\* ------------------------------------------------ claims on the report
\* get_adm_status is called for the report in this step
ReportStep ==
    /\ adm_call.state = "none"
    /\ adm_call'.state = "returned"

\* the entries of list at the positions not in failed
RECURSIVE Resolved(_, _, _)
Resolved(list, i, failed) ==
    IF i > Len(list) THEN <<>>
    ELSE (IF i \in failed THEN <<>> ELSE <<list[i]>>) \o Resolved(list, i + 1, failed)

C25_FileHoldsMemory ==
    /\ configuration = load_configuration(config_file).importance
    /\ ~config_file.exists => configuration = <<>>
    /\ []((config_call.some /\ config_call.saved)
             => /\ config_file = File(configuration)
                /\ configuration[config_call.system_name] = config_call.importance)
    /\ [][/\ config_call'.some
             => /\ configuration' = MapInsert(configuration, config_call'.system_name,
                                              config_call'.importance)
                /\ config_call'.saved => config_file' = File(configuration')
          /\ DOMAIN configuration \subseteq DOMAIN configuration'
          /\ DOMAIN config_file.importance \subseteq DOMAIN config_file'.importance]_vars

C25_Witness ==
    /\ config_call.some
    /\ config_call.saved
    /\ config_call.system_name = "1DQ1-A"
    /\ config_file = File(configuration)
    /\ DOMAIN configuration = {"1DQ1-A", "JITA"}
    /\ configuration["1DQ1-A"] = "Green"
    /\ configuration["JITA"] = "Yellow"

\* C26 as stated: after a set_importance call whose write failed, the
\* mapping in memory is the one last persisted, that is the one the file
\* holds.
C26_FailedSaveKeepsMemory ==
    (config_call.some /\ ~config_call.saved)
    => configuration = load_configuration(config_file).importance

\* ------------------------------------------------ claims on a whole pass
\* where alliance a stands in the queue the pass started on
QueuePosition(a) ==
    CHOOSE i \in DOMAIN drain_input.queue : drain_input.queue[i] = a

\* what the consumer has taken after n calls of recv on the FIFO channel
Received(n) == SubSeq(pass_sent, 1, n)

\* C27: the alliances are popped, and their rosters fetched, from the front
\* of the queue the pass started on; an alliance is popped only when no op
\* of the one before is pending; a message is appended to the channel only
\* for the alliance popped last. So at every moment the messages the
\* consumer has received come grouped by alliance, the groups in queue order.
C27_NotificationsInQueueOrder ==
    /\ [](pc # "call"
            => LET start == drain_input.queue
                   k == Len(start) - Len(alliance_queue)
               IN /\ alliance_queue = SubSeq(start, k + 1, Len(start))
                  /\ alliance_ops # <<>> => k > 0 /\ alliance_id = start[k]
                  /\ \A n \in 0..Len(pass_sent) :
                        LET got == Received(n)
                        IN /\ \A i \in DOMAIN got :
                                 \E j \in 1..k : start[j] = got[i].alliance
                           /\ \A i, j \in DOMAIN got :
                                 i < j => QueuePosition(got[i].alliance)
                                             <= QueuePosition(got[j].alliance))
    /\ [][/\ alliance_queue' # alliance_queue
             => /\ alliance_ops = <<>>
                /\ alliance_queue' = Tail(alliance_queue)
                /\ refresh'.alliance = Head(alliance_queue)
          /\ pass_sent' # pass_sent
             => /\ Len(pass_sent') = Len(pass_sent) + 1
                /\ SubSeq(pass_sent', 1, Len(pass_sent)) = pass_sent
                /\ pass_sent'[Len(pass_sent')].alliance = alliance_id]_vars

C27_Witness ==
    /\ pc = "loop_update"
    /\ drain_input.queue = <<2, 1>>
    /\ Len(pass_sent) = 3
    /\ pass_sent[1].alliance = 2
    /\ pass_sent[2].alliance = 2
    /\ pass_sent[3].alliance = 1

\* a pass that has refreshed both alliances, both seen from its start, with
\* the channel open to its end. The rosters at the start are the
\* corporations mapped, so a roster that differs was fetched in this pass.
BothRefreshed ==
    /\ pc = "loop_update"
    /\ alliance_queue = <<>>
    /\ chan_open
    /\ drain_input.seen = Alliances

\* corporation c, mapped to A at the start, is in B's roster and not in A's
MovedTo(c, A, B) ==
    /\ c \in DOMAIN drain_input.membership
    /\ drain_input.membership[c] = A
    /\ c \in last_roster[B].ids
    /\ c \notin last_roster[A].ids

Left(A, c) == \E i \in DOMAIN pass_sent : pass_sent[i] = NotifyCorpLeftAlliance(A, c)

\* C28 as stated: when both alliances have been refreshed, a corporation
\* that was mapped to A, is in B's roster and not in A's has been announced
\* as having left A, whichever of A and B stood first in the queue.
C28_LeaveEmittedEitherOrder ==
    BothRefreshed
    => \A A \in Alliances, B \in Alliances, c \in Corps :
          (A # B /\ MovedTo(c, A, B)) => Left(A, c)

\* the part of C28 the code does satisfy: the same when A stood before B
C28_LeaveEmittedWhenFirst ==
    BothRefreshed
    => \A A \in Alliances, B \in Alliances, c \in Corps :
          (A # B /\ MovedTo(c, A, B) /\ QueuePosition(A) < QueuePosition(B))
          => Left(A, c)

\* ------------------------------------- claims on the filter and the lookups
\* the structures of a list that are the alliance's, are not TCUs (unless
\* they are included) and report a level, in the order of the list
Owned(list) ==
    SelectSeq(list,
              LAMBDA s : /\ s.alliance_id = AllianceId
                         /\ (include_tcus \/ s.structure_type_id # TCU_STRUCTURE_ID)
                         /\ s.vulnerability_occupancy_level.some)

\* C31: get_adm_status returns entries only for structures that belong to
\* the configured alliance, are not TCUs unless TCUs are included, and
\* report an occupancy level: the entries are, in order, the systems and
\* levels of those structures whose name was resolved; when the fetch of
\* the structure list fails the call returns the empty list.
C31_OnlyFilteredStructures ==
    Returned =>
       /\ ~adm_call.result.ok => (adm_call.systems = <<>> /\ adm_call.failed = {})
       /\ adm_call.result.ok =>
             LET kept == Resolved(Owned(adm_call.result.structures), 1, adm_call.failed)
             IN /\ Len(adm_call.systems) = Len(kept)
                /\ \A j \in DOMAIN kept :
                      /\ adm_call.systems[j].system_id = kept[j].solar_system_id
                      /\ adm_call.systems[j].status.adm
                            = kept[j].vulnerability_occupancy_level.level

\* a list of a TCU of the alliance and a hub of it: one entry, the hub's
C31_Witness ==
    /\ Returned
    /\ adm_call.result.ok
    /\ adm_call.result.structures
          = <<SovereigntyStructure(AllianceId, 1, TCU_STRUCTURE_ID, SomeLevel(39)),
              SovereigntyStructure(AllianceId, 2, IHUB_STRUCTURE_ID, SomeLevel(41))>>
    /\ adm_call.systems = <<SystemAdm(2, Good(41))>>

\* C32: when the name of a structure's system cannot be resolved, the
\* entry of exactly that structure is left out: the list returned has one
\* entry for every other filtered structure, in the order of the filtered
\* list, each with the status its level has under the importance of its
\* system, and the call still returns.
C32_NameFailureSkipsOne ==
    (Returned /\ adm_call.failed # {}) =>
       LET filtered == Filter(adm_call.result.structures)
           others == {i \in DOMAIN filtered : i \notin adm_call.failed}
           Position(j) == CHOOSE i \in others :
                             Cardinality({k \in others : k < i}) = j - 1
       IN /\ adm_call.failed \subseteq DOMAIN filtered
          /\ Len(adm_call.systems) = Cardinality(others)
          /\ \A j \in DOMAIN adm_call.systems :
                LET structure == filtered[Position(j)]
                    name == EsiSystemName(structure.solar_system_id)
                    level == structure.vulnerability_occupancy_level.level
                IN adm_call.systems[j]
                     = SystemAdm(structure.solar_system_id,
                                 StatusOf(configuration, name, level))

\* the name of the first of two systems is not resolved, the second is
\* classified and returned
C32_Witness ==
    /\ Returned
    /\ adm_call.failed = {1}
    /\ Len(Filter(adm_call.result.structures)) = 2
    /\ Filter(adm_call.result.structures)[1].solar_system_id = 1
    /\ adm_call.systems = <<SystemAdm(2, Good(41))>>

\* C33 as stated: a system that a pass classifies as the pass before did,
\* entry by entry, gets no notification in that pass, also when the list
\* has more than one entry for it.
C33_SameSeverityIsSilent ==
    (n_step.some /\ n_step.system_adm.system_id \in n_pass.repeated)
       => n_step.sent # "sent"

\* the part of C33 the code does satisfy: the same for a system the list
\* has one entry for
C33_SameSeverityIsSilentOneEntry ==
    (/\ n_step.some
     /\ n_step.system_adm.system_id \in n_pass.repeated
     /\ Len(KindsOf(n_pass.list, n_step.system_adm.system_id)) = 1)
       => n_step.sent # "sent"

\* ------------------------------------------------- claims on the consumer
\* the notifications sent so far, in send order
SentSoFar == [k \in 1..bot_seen.sent |-> k]

\* C34: however often the ready event fires, at most one consumer task is
\* spawned; until the first ready event every notification sent is in the
\* channel; and once the consumer runs, what it has received followed by
\* what the channel holds is what was sent, in send order, so the
\* notifications sent before the first ready event are the first it takes.
C34_OneConsumerInSendOrder ==
    /\ consumers <= 1
    /\ consumers = 1 <=> command_receiver = "none"
    /\ (command_receiver = "some") => (channel = SentSoFar /\ received = <<>>)
    /\ (consumers = 1) => (received \o channel = SentSoFar)

\* two notifications were sent before the first of three ready events, a
\* third after it, and the consumer has taken all three
C34_Witness ==
    /\ bot_seen.ready = 3
    /\ bot_seen.buffered = 2
    /\ consumers = 1
    /\ received = <<1, 2, 3>>

\* ------------------------------------------------ claims on the run loop
\* C35: run starts with a rebuild, then calls the drain without limit, so
\* that its limit is the whole queue; a drain called from the loop has a
\* limit of at most 20 and of at most the queue, and a drain pops only
\* while its limit lasts, one alliance for each unit of it; the loop goes
\* from its rebuild check to its drain check, never the other way within
\* an iteration, the queue is replaced only at the start and at the
\* rebuild check, and a drain is entered only at the first call and at
\* the drain check.
C35_StartThenLimitedPasses ==
    [][/\ pc = "start"
          => (pc' = "first_process" /\ rebuild'.some
              /\ alliance_queue' = (IF rebuild'.result.ok
                                    THEN rebuild'.result.ids ELSE <<>>))
       /\ pc = "first_process"
          => (/\ process_limit' = Len(alliance_queue)
              /\ alliance_queue' = alliance_queue
              /\ pc' = (IF alliance_queue = <<>> THEN "loop_update" ELSE "running"))
       /\ pc = "loop_update"
          => (pc' = "loop_process" /\ process_limit' = process_limit)
       /\ pc = "loop_process"
          => (/\ alliance_queue' = alliance_queue
              /\ process_limit' <= 20
              /\ process_limit' <= Len(alliance_queue)
              /\ pc' \in {"running", "loop_update"}
              /\ pc' = "running"
                    => process_limit' = (IF Len(alliance_queue) < 20
                                         THEN Len(alliance_queue) ELSE 20))
       /\ pc = "running"
          => (/\ process_limit' <= process_limit
              /\ Len(alliance_queue) - Len(alliance_queue')
                    <= process_limit - process_limit'
              /\ \E k \in 0..1 :
                    alliance_queue'
                      = SubSeq(alliance_queue, k + 1, Len(alliance_queue)))
       /\ pc' = "running"
          => pc \in {"first_process", "loop_process", "running", "ops"}
      ]_vars

\* a scheduled drain of a queue of 22 has popped 20 alliances and stops
\* with two left
C35_Witness ==
    /\ pc = "running"
    /\ process_limit = 0
    /\ alliance_id = 20
    /\ alliance_queue = <<21, 22>>

\* ------------------------------------- claims on the configuration's keys
\* the administrator's text n names the system with this display name
Names(n, display_name) == to_uppercase(n) = to_uppercase(display_name)

\* the status a level has under importance I
StatusUnder(importance, adm) ==
    select_adm_status(adm, warning_threshold(importance),
                      critical_threshold(importance))

\* C36 as stated: once the administrator has set an importance for a system
\* name, every entry returned for the system with that display name has the
\* status its level has under the importance set last for it.
C36_SetImportanceIsUsed ==
    Returned =>
       \A j \in DOMAIN adm_call.systems, n \in SystemInputs :
          LET entry == adm_call.systems[j]
          IN (/\ Names(n, EsiSystemName(entry.system_id))
              /\ to_uppercase(n) \in DOMAIN configuration)
             => entry.status
                  = StatusUnder(configuration[to_uppercase(n)], entry.status.adm)

\* the part of C36 the code does satisfy: the same for a system whose
\* display name has no lower-case letter
C36_SetImportanceIsUsedUppercase ==
    Returned =>
       \A j \in DOMAIN adm_call.systems, n \in SystemInputs :
          LET entry == adm_call.systems[j]
              name == EsiSystemName(entry.system_id)
          IN (/\ Names(n, name)
              /\ name = to_uppercase(name)
              /\ to_uppercase(n) \in DOMAIN configuration)
             => entry.status
                  = StatusUnder(configuration[to_uppercase(n)], entry.status.adm)

\* ------------------------------------------ claims on membership and seen
\* C37: in every state, every alliance a corporation is mapped to is in
\* the seen set, and while the ops of a fetched roster are applied the
\* alliance they map corporations to is in it.
C37_MembershipValuesSeen ==
    /\ \A c \in DOMAIN corporation_alliance :
          corporation_alliance[c] \in alliance_seen
    /\ pc = "ops" => alliance_id \in alliance_seen

\* corporations are mapped to both alliances, after a later fetch of the
\* second alliance has failed
C37_Witness ==
    /\ \E c1, c2 \in DOMAIN corporation_alliance :
          corporation_alliance[c1] = 1 /\ corporation_alliance[c2] = 2
    /\ refresh.state = "failed"
    /\ refresh.alliance = 2
    /\ alliance_seen = {1, 2}

\* ------------------------------------------- claims on a failed alert
\* C38: when the send for a system fails, the history has no entry for that
\* system afterwards, neither the one it had nor the new status, and the
\* entry of every other system behind it in the list is as it was, present
\* or absent.
C38_FailedSendNotRemembered ==
    /\ [](n_step.sent = "failed"
            => n_step.system_adm.system_id \notin DOMAIN history)
    /\ [][NotifierSendFails
            => LET s == Head(system_adms).system_id
                   behind == {Tail(system_adms)[i].system_id :
                                 i \in DOMAIN Tail(system_adms)} \ {s}
               IN /\ s \notin DOMAIN history'
                  /\ \A t \in behind :
                        /\ t \in DOMAIN history' <=> t \in DOMAIN history
                        /\ t \in DOMAIN history => history'[t] = history[t]]_vars

\* the send of a Critical for a system that was Warning has failed: its
\* entry is gone, and the system behind it in the list keeps its entry
C38_Witness ==
    /\ n_step.sent = "failed"
    /\ n_step.prev_adm.kind = "Warning"
    /\ n_step.system_adm.status.kind = "Critical"
    /\ n_step.system_adm.system_id \notin DOMAIN history
    /\ n_step.rest # <<>>
    /\ n_step.rest[1].system_id # n_step.system_adm.system_id
    /\ n_step.rest[1].system_id \in DOMAIN history

\* ------------------------------------------------- claims on the cache lock
\* the callers that hold the lock of a kind: past the lookup, in the fetch
Holders(kind) ==
    {c \in Callers : info_call[c].pc = "fetching" /\ info_call[c].kind = kind}

\* C39: the write lock of a map is held from the lookup over the fetch to
\* the return: for each kind at most one caller is past the lookup, so at
\* most one fetch of the kind is in flight, and the lock names that caller;
\* a fetch is only ever made for an id the map has no entry for, a
\* successful one inserts the entry, and no entry is ever removed, so no id
\* is fetched successfully twice.
C39_LockHeldAcrossFetch ==
    /\ [](\A kind \in Kinds :
            /\ Cardinality(Holders(kind)) <= 1
            /\ \A c \in Callers : info_lock[kind] = c <=> c \in Holders(kind)
            /\ \A c \in Holders(kind) :
                  info_call[c].id \notin DOMAIN InfoMap(kind))
    /\ [][\A c \in Callers :
            (info_call[c].pc = "fetching" /\ info_call'[c].fetch = "ok")
            => LET kind == info_call[c].kind
                   id == info_call[c].id
               IN /\ kind = "alliance"
                       => (id \notin DOMAIN alliances /\ id \in DOMAIN alliances')
                  /\ kind = "corporation"
                       => (id \notin DOMAIN corporations
                           /\ id \in DOMAIN corporations')
                  /\ kind = "system"
                       => (id \notin DOMAIN systems /\ id \in DOMAIN systems')]_vars
    /\ [][/\ DOMAIN alliances \subseteq DOMAIN alliances'
          /\ DOMAIN corporations \subseteq DOMAIN corporations'
          /\ DOMAIN systems \subseteq DOMAIN systems']_vars

\* one caller is fetching a system while the other, asking for another
\* system, waits for the lock of the same map
C39_Witness ==
    /\ info_call[1].pc = "fetching"
    /\ info_call[1].kind = "system"
    /\ info_lock["system"] = 1
    /\ info_call[2].pc = "waiting"
    /\ info_call[2].kind = "system"
    /\ info_call[2].id # info_call[1].id

\* ------------------------------------------- claims on the drain's progress
\* the limit of the calls lets a pass pop
LimitAllowsPop == drain_input.limit.some => drain_input.limit.limit >= 1

\* C40: every call of process_alliance_queue returns; a call with no limit
\* or a limit of at least 1 on a queue that is not empty has popped at
\* least one alliance when it returns, whether the fetch of its roster
\* succeeded, failed, or a send ended the pass; and calls repeated with
\* such a limit and no rebuild leave the queue empty in the end.
C40_DrainTerminatesAndEmpties ==
    /\ [](pc = "loop_update" /\ drain_input.queue # <<>> /\ LimitAllowsPop
            => Len(alliance_queue) < Len(drain_input.queue))
    /\ (pc # "loop_update") ~> (pc = "loop_update")
    /\ LimitAllowsPop ~> (alliance_queue = <<>>)

\* a call with limit 1 that started on what earlier calls left, a single
\* alliance and one alliance seen, has returned with the queue empty after
\* a failed fetch
C40_Witness ==
    /\ pc = "loop_update"
    /\ drain_input.limit = SomeLimit(1)
    /\ Len(drain_input.queue) = 1
    /\ drain_input.seen # {}
    /\ refresh.state = "failed"
    /\ alliance_queue = <<>>

====
